---------------------------- MODULE Spec2Model ----------------------------
(***************************************************************************)
(* A model of the VMAPI mutation engine: the HTTP handlers of the VM      *)
(* endpoints, the workflow pipelines (chain / onerror / oncancel) they     *)
(* hand to the workflow executor, the waitlist tickets the pipelines take, *)
(* and the state of each VM in the store and on the compute node.          *)
(***************************************************************************)
EXTENDS Integers, Sequences, FiniteSets, TLC

VARIABLES
    vms,      \* the store (req.cache / ufds): uuid -> [state, server_uuid]
    cn,       \* the compute node: uuid of a VM or of a NAT zone of the
              \* fabric -> "absent" | "running" | "stopped"
    jobs,     \* the executor's jobs, in creation order; the index is the job uuid
    tickets,  \* the waitlist: ticket key -> queue of [job, status], oldest first
    resp,     \* the HTTP response sent in the last step, if it was a request
    piping    \* jobs whose HTTP response is still piped (sync=true)

vars == <<vms, cn, jobs, tickets, resp, piping>>

(***************************************************************************)
(* Bounds                                                                  *)
(***************************************************************************)
MaxJobs == 2      \* jobs created through the API
MaxWfJobs == 2    \* jobs of the workflows of existing VMs
MaxFifoJobs == 3  \* add-nics jobs queueing on one VM
MaxSoloJobs == 2  \* provision and add-nics jobs running with timeouts

VmIds == {"v1", "v2"}
NatIds == {"nat1", "nat2"}   \* uuids a NAT zone of the fabric can get
CnIds == VmIds \cup NatIds
SERVER == "s1"
FABRIC == "f1"

VmKey(v) == <<"vm", v>>
AllocationKey == <<"allocation", SERVER>>
FabricNatKey == <<"fabric_nat", FABRIC>>
TicketKeys == {VmKey(v) : v \in VmIds} \cup {AllocationKey, FabricNatKey}

VmStates == {"provisioning", "running", "stopped", "failed", "destroyed"}
NoVm == [state |-> "none", server_uuid |-> "none"]

(***************************************************************************)
(* Pipelines.  A pipeline is the list of its tasks' names, in the order    *)
(* of the workflow definition.                                             *)
(***************************************************************************)

\* fabricCommon.provisionChain, provisionWaitTask and the release task
fabricProvisionChain == <<"cnapi.acquire_fabric_nat_tickets">>
fabricProvisionWaitTask == "vmapi.wait_for_fabric_nat_provisions"
fabricReleaseTicketTask == "cnapi.release_fabric_nat_tickets"
\* nfsVolumes.provisionChain
nfsVolumesProvisionChain == <<"volapi.provision_nfs_volumes">>

ProvisionChainPutBeforeWait ==
    <<"common.validate_params", "workflow.set_job_action",
      "imgapi.generate_passwords">>
    \o fabricProvisionChain
    \o <<"cnapi.ensure_image", "cnapi.wait_task_ensure_image",
         fabricProvisionWaitTask>>
    \o nfsVolumesProvisionChain
    \o <<"prepare_payload", "cnapi.provision_vm", "vmapi.put_vm",
         "cnapi.wait_task", "volapi.add_volumes_references", "fwapi.update",
         "cnapi.release_vm_ticket", fabricReleaseTicketTask>>

ProvisionChain ==
    <<"common.validate_params", "workflow.set_job_action",
      "imgapi.generate_passwords">>
    \o fabricProvisionChain
    \o <<"cnapi.ensure_image", "cnapi.wait_task_ensure_image",
         fabricProvisionWaitTask>>
    \o nfsVolumesProvisionChain
    \o <<"prepare_payload", "cnapi.provision_vm", "cnapi.wait_task",
         "volapi.add_volumes_references", "vmapi.put_vm", "fwapi.update",
         "cnapi.release_vm_ticket", fabricReleaseTicketTask>>

ProvisionOnErrorNoCleanup ==
    <<"set_post_back_failed", "common.post_back",
      "cnapi.cleanup_allocation_ticket", "cnapi.cleanup_vm_ticket",
      "vmapi.refresh_vm_on_error", fabricReleaseTicketTask, "On error">>

ProvisionOnError ==
    <<"napi.cleanup_nics", "set_post_back_failed", "common.post_back",
      "cnapi.cleanup_allocation_ticket", "cnapi.cleanup_vm_ticket",
      "vmapi.refresh_vm_on_error", fabricReleaseTicketTask, "On error">>

ProvisionOnCancel ==
    <<"vmapi.refresh_vm", "cnapi.cleanup_vm_ticket",
      "cnapi.cleanup_allocation_ticket", fabricReleaseTicketTask>>

AddNicsChainParamsAfterTicket ==
    <<"common.validate_params", "common.setup_request">>
    \o fabricProvisionChain
    \o <<"cnapi.acquire_vm_ticket", "cnapi.wait_on_vm_ticket",
         "common.update_network_params", fabricProvisionWaitTask,
         "cnapi.update_vm", "cnapi.wait_task", "vmapi.check_updated",
         "vmapi.put_vm", "fwapi.update", "cnapi.release_vm_ticket",
         fabricReleaseTicketTask>>

AddNicsChainNoWait ==
    <<"common.validate_params", "common.setup_request">>
    \o fabricProvisionChain
    \o <<"common.update_network_params", "cnapi.acquire_vm_ticket",
         fabricProvisionWaitTask,
         "cnapi.update_vm", "cnapi.wait_task", "vmapi.check_updated",
         "vmapi.put_vm", "fwapi.update", "cnapi.release_vm_ticket",
         fabricReleaseTicketTask>>

AddNicsChain ==
    <<"common.validate_params", "common.setup_request">>
    \o fabricProvisionChain
    \o <<"common.update_network_params", "cnapi.acquire_vm_ticket",
         "cnapi.wait_on_vm_ticket", fabricProvisionWaitTask,
         "cnapi.update_vm", "cnapi.wait_task", "vmapi.check_updated",
         "vmapi.put_vm", "fwapi.update", "cnapi.release_vm_ticket",
         fabricReleaseTicketTask>>

AddNicsOnErrorNoRelease ==
    <<"napi.cleanup_nics", fabricReleaseTicketTask, "On error">>

AddNicsOnErrorNoCleanup ==
    <<"on_error.release_vm_ticket", fabricReleaseTicketTask, "On error">>

AddNicsOnError ==
    <<"napi.cleanup_nics", "on_error.release_vm_ticket",
      fabricReleaseTicketTask, "On error">>

AddNicsOnCancel ==
    <<"on_cancel.release_vm_ticket", fabricReleaseTicketTask>>

MigrateBeginChainNoWait ==
    <<"common.tasks.validateForZoneAction", "migrationCommon.tasks.validate",
      "common.tasks.setupForWaitTask",
      "migrationBegin.tasks.getSourceFilesystemDetails",
      "common.tasks.waitTask",
      "migrationBegin.tasks.storeSourceFilesystemDetails",
      "migrationBegin.tasks.createProvisionPayload",
      "common.tasks.acquireAllocationTicket",
      "common.tasks.waitOnAllocationTicket",
      "migrationBegin.tasks.allocateServer",
      "common.tasks.releaseAllocationTicket",
      "common.tasks.acquireVMTicket",
      "migrationCommon.tasks.storeInitialRecord",
      "migrationCommon.tasks.disallowRetry",
      "common.tasks.releaseVMTicket",
      "migrationBegin.tasks.provisionVm",
      "common.tasks.setupForWaitTask",
      "migrationBegin.tasks.setCreateTimestamp", "common.tasks.waitTask",
      "common.tasks.setupForWaitTask",
      "migrationBegin.tasks.getTargetFilesystemDetails",
      "common.tasks.waitTask",
      "migrationBegin.tasks.storeTargetFilesystemDetails",
      "common.tasks.setupForWaitTask",
      "migrationCommon.tasks.removeTargetZfsQuota", "common.tasks.waitTask",
      "common.tasks.setupForWaitTask",
      "migrationCommon.tasks.removeSourceZfsQuota", "common.tasks.waitTask",
      "migrationCommon.tasks.storeSuccess",
      "migrationBegin.tasks.startSyncWhenAutomatic">>

MigrateBeginChainReleaseAfterProvision ==
    <<"common.tasks.validateForZoneAction", "migrationCommon.tasks.validate",
      "common.tasks.setupForWaitTask",
      "migrationBegin.tasks.getSourceFilesystemDetails",
      "common.tasks.waitTask",
      "migrationBegin.tasks.storeSourceFilesystemDetails",
      "migrationBegin.tasks.createProvisionPayload",
      "common.tasks.acquireAllocationTicket",
      "common.tasks.waitOnAllocationTicket",
      "migrationBegin.tasks.allocateServer",
      "common.tasks.releaseAllocationTicket",
      "common.tasks.acquireVMTicket", "common.tasks.waitOnVMTicket",
      "migrationCommon.tasks.storeInitialRecord",
      "migrationCommon.tasks.disallowRetry",
      "migrationBegin.tasks.provisionVm",
      "common.tasks.releaseVMTicket",
      "common.tasks.setupForWaitTask",
      "migrationBegin.tasks.setCreateTimestamp", "common.tasks.waitTask",
      "common.tasks.setupForWaitTask",
      "migrationBegin.tasks.getTargetFilesystemDetails",
      "common.tasks.waitTask",
      "migrationBegin.tasks.storeTargetFilesystemDetails",
      "common.tasks.setupForWaitTask",
      "migrationCommon.tasks.removeTargetZfsQuota", "common.tasks.waitTask",
      "common.tasks.setupForWaitTask",
      "migrationCommon.tasks.removeSourceZfsQuota", "common.tasks.waitTask",
      "migrationCommon.tasks.storeSuccess",
      "migrationBegin.tasks.startSyncWhenAutomatic">>

MigrateBeginChainVmInsideAllocation ==
    <<"common.tasks.validateForZoneAction", "migrationCommon.tasks.validate",
      "common.tasks.setupForWaitTask",
      "migrationBegin.tasks.getSourceFilesystemDetails",
      "common.tasks.waitTask",
      "migrationBegin.tasks.storeSourceFilesystemDetails",
      "migrationBegin.tasks.createProvisionPayload",
      "common.tasks.acquireAllocationTicket",
      "common.tasks.waitOnAllocationTicket",
      "migrationBegin.tasks.allocateServer",
      "common.tasks.acquireVMTicket", "common.tasks.waitOnVMTicket",
      "common.tasks.releaseAllocationTicket",
      "migrationCommon.tasks.storeInitialRecord",
      "migrationCommon.tasks.disallowRetry",
      "common.tasks.releaseVMTicket",
      "migrationBegin.tasks.provisionVm",
      "common.tasks.setupForWaitTask",
      "migrationBegin.tasks.setCreateTimestamp", "common.tasks.waitTask",
      "common.tasks.setupForWaitTask",
      "migrationBegin.tasks.getTargetFilesystemDetails",
      "common.tasks.waitTask",
      "migrationBegin.tasks.storeTargetFilesystemDetails",
      "common.tasks.setupForWaitTask",
      "migrationCommon.tasks.removeTargetZfsQuota", "common.tasks.waitTask",
      "common.tasks.setupForWaitTask",
      "migrationCommon.tasks.removeSourceZfsQuota", "common.tasks.waitTask",
      "migrationCommon.tasks.storeSuccess",
      "migrationBegin.tasks.startSyncWhenAutomatic">>

MigrateBeginChain ==
    <<"common.tasks.validateForZoneAction", "migrationCommon.tasks.validate",
      "common.tasks.setupForWaitTask",
      "migrationBegin.tasks.getSourceFilesystemDetails",
      "common.tasks.waitTask",
      "migrationBegin.tasks.storeSourceFilesystemDetails",
      "migrationBegin.tasks.createProvisionPayload",
      "common.tasks.acquireAllocationTicket",
      "common.tasks.waitOnAllocationTicket",
      "migrationBegin.tasks.allocateServer",
      "common.tasks.releaseAllocationTicket",
      "common.tasks.acquireVMTicket", "common.tasks.waitOnVMTicket",
      "migrationCommon.tasks.storeInitialRecord",
      "migrationCommon.tasks.disallowRetry",
      "common.tasks.releaseVMTicket",
      "migrationBegin.tasks.provisionVm",
      "common.tasks.setupForWaitTask",
      "migrationBegin.tasks.setCreateTimestamp", "common.tasks.waitTask",
      "common.tasks.setupForWaitTask",
      "migrationBegin.tasks.getTargetFilesystemDetails",
      "common.tasks.waitTask",
      "migrationBegin.tasks.storeTargetFilesystemDetails",
      "common.tasks.setupForWaitTask",
      "migrationCommon.tasks.removeTargetZfsQuota", "common.tasks.waitTask",
      "common.tasks.setupForWaitTask",
      "migrationCommon.tasks.removeSourceZfsQuota", "common.tasks.waitTask",
      "migrationCommon.tasks.storeSuccess",
      "migrationBegin.tasks.startSyncWhenAutomatic">>

MigrateBeginOnError ==
    <<"migrationCommon.tasks.storeFailure",
      "common.tasks.releaseAllocationTicket",
      "common.tasks.releaseVMTicketIgnoringErr">>

MigrateBeginOnCancel ==
    <<"migrationCommon.tasks.storeFailure",
      "common.tasks.releaseAllocationTicket",
      "common.tasks.releaseVMTicketIgnoringErr">>

MigrateSyncChainReleaseAfterSource ==
    <<"common.tasks.validateForZoneAction", "migrationCommon.tasks.validate",
      "common.tasks.acquireVMTicket", "common.tasks.waitOnVMTicket",
      "cleanupSource", "cleanupTarget",
      "migrationCommon.tasks.storeInitialRecord",
      "common.tasks.setupForWaitTask",
      "migrationCommon.tasks.setupCnapiSource", "common.tasks.waitTask",
      "common.tasks.releaseVMTicket",
      "common.tasks.setupForWaitTask",
      "migrationCommon.tasks.setupCnapiTarget", "common.tasks.waitTask",
      "migrationCommon.tasks.storeProcessDetails",
      "migrationSync.tasks.sync", "migrationCommon.tasks.storeSuccess",
      "migrationSync.tasks.startSyncOrSwitchWhenAutomatic">>

MigrateSyncChain ==
    <<"common.tasks.validateForZoneAction", "migrationCommon.tasks.validate",
      "common.tasks.acquireVMTicket", "common.tasks.waitOnVMTicket",
      "cleanupSource", "cleanupTarget",
      "migrationCommon.tasks.storeInitialRecord",
      "common.tasks.releaseVMTicket",
      "common.tasks.setupForWaitTask",
      "migrationCommon.tasks.setupCnapiSource", "common.tasks.waitTask",
      "common.tasks.setupForWaitTask",
      "migrationCommon.tasks.setupCnapiTarget", "common.tasks.waitTask",
      "migrationCommon.tasks.storeProcessDetails",
      "migrationSync.tasks.sync", "migrationCommon.tasks.storeSuccess",
      "migrationSync.tasks.startSyncOrSwitchWhenAutomatic">>

MigrateSyncOnError ==
    <<"cleanupSource", "cleanupTarget", "migrationCommon.tasks.storeFailure",
      "common.tasks.releaseVMTicketIgnoringErr">>

MigrateSyncOnCancel ==
    <<"cleanupSource", "cleanupTarget", "migrationCommon.tasks.storeFailure",
      "common.tasks.releaseVMTicketIgnoringErr">>

MigrateSwitchChainSwapBeforeTicket ==
    <<"common.tasks.validateForZoneAction", "migrationCommon.tasks.validate",
      "modSwitch.tasks.stopVm", "common.tasks.waitForWorkflowJob",
      "modSwitch.tasks.startFinalSync", "common.tasks.waitForWorkflowJob",
      "modSwitch.tasks.updateVmServerUuid",
      "common.tasks.acquireVMTicket", "common.tasks.waitOnVMTicket",
      "modSwitch.tasks.ensureVmStopped",
      "modSwitch.tasks.reserveNetworkIps",
      "modSwitch.tasks.storeReservedNetworkIps",
      "migrationCommon.tasks.storeInitialRecord",
      "modSwitch.tasks.getSourceCoreFilesystemSize", "common.tasks.waitTask",
      "modSwitch.tasks.setupTargetFilesystem", "common.tasks.waitTask",
      "modSwitch.tasks.setTargetVmAutoboot", "common.tasks.waitTask",
      "modSwitch.tasks.setSourceDoNotInventory", "common.tasks.waitTask",
      "modSwitch.tasks.removeTargetDoNotInventory", "common.tasks.waitTask",
      "migrationCommon.tasks.storeSuccess",
      "common.tasks.releaseVMTicket",
      "modSwitch.tasks.startTargetVm", "common.tasks.waitForWorkflowJob">>

MigrateSwitchChain ==
    <<"common.tasks.validateForZoneAction", "migrationCommon.tasks.validate",
      "modSwitch.tasks.stopVm", "common.tasks.waitForWorkflowJob",
      "modSwitch.tasks.startFinalSync", "common.tasks.waitForWorkflowJob",
      "common.tasks.acquireVMTicket", "common.tasks.waitOnVMTicket",
      "modSwitch.tasks.ensureVmStopped",
      "modSwitch.tasks.reserveNetworkIps",
      "modSwitch.tasks.storeReservedNetworkIps",
      "migrationCommon.tasks.storeInitialRecord",
      "modSwitch.tasks.getSourceCoreFilesystemSize", "common.tasks.waitTask",
      "modSwitch.tasks.setupTargetFilesystem", "common.tasks.waitTask",
      "modSwitch.tasks.setTargetVmAutoboot", "common.tasks.waitTask",
      "modSwitch.tasks.setSourceDoNotInventory", "common.tasks.waitTask",
      "modSwitch.tasks.updateVmServerUuid",
      "modSwitch.tasks.removeTargetDoNotInventory", "common.tasks.waitTask",
      "migrationCommon.tasks.storeSuccess",
      "common.tasks.releaseVMTicket",
      "modSwitch.tasks.startTargetVm", "common.tasks.waitForWorkflowJob">>

MigrateSwitchOnErrorNoUnreserve ==
    <<"migrationCommon.tasks.storeFailure",
      "modSwitch.tasks.startSourceVm",
      "on_error.release_vm_ticket">>

MigrateSwitchOnError ==
    <<"migrationCommon.tasks.storeFailure",
      "modSwitch.tasks.unreserveNetworkIps", "modSwitch.tasks.startSourceVm",
      "on_error.release_vm_ticket">>

MigrateSwitchOnCancel ==
    <<"migrationCommon.tasks.storeFailure",
      "modSwitch.tasks.unreserveNetworkIps", "modSwitch.tasks.startSourceVm",
      "on_cancel.release_vm_ticket">>

\* The pipelines of start, stop, reboot, update and destroy: a zone action
\* on the compute node inside the VM ticket, then the VM is put to the store.
ZoneActionChain ==
    <<"cnapi.acquire_vm_ticket", "cnapi.wait_on_vm_ticket",
      "cnapi.zone_action", "vmapi.put_vm", "cnapi.release_vm_ticket">>
ZoneActionOnError == <<"on_error.release_vm_ticket">>
ZoneActionOnCancel == <<"vmapi.refresh_vm", "on_cancel.release_vm_ticket">>

ZoneActions == {"start", "stop", "reboot", "update", "destroy"}
WorkflowNames ==
    ZoneActions \cup
    {"provision", "add-nics", "migrate-begin", "migrate-sync",
     "migrate-switch"}

Chain(name) ==
    CASE name = "provision" -> ProvisionChain
      [] name = "add-nics" -> AddNicsChain
      [] name = "migrate-begin" -> MigrateBeginChain
      [] name = "migrate-sync" -> MigrateSyncChain
      [] name = "migrate-switch" -> MigrateSwitchChain
      [] OTHER -> ZoneActionChain

OnError(name) ==
    CASE name = "provision" -> ProvisionOnError
      [] name = "add-nics" -> AddNicsOnError
      [] name = "migrate-begin" -> MigrateBeginOnError
      [] name = "migrate-sync" -> MigrateSyncOnError
      [] name = "migrate-switch" -> MigrateSwitchOnError
      [] OTHER -> ZoneActionOnError

OnCancel(name) ==
    CASE name = "provision" -> ProvisionOnCancel
      [] name = "add-nics" -> AddNicsOnCancel
      [] name = "migrate-begin" -> MigrateBeginOnCancel
      [] name = "migrate-sync" -> MigrateSyncOnCancel
      [] name = "migrate-switch" -> MigrateSwitchOnCancel
      [] OTHER -> ZoneActionOnCancel

Branch(name, phase) ==
    CASE phase = "chain" -> Chain(name)
      [] phase = "onerror" -> OnError(name)
      [] phase = "oncancel" -> OnCancel(name)
      [] OTHER -> <<>>


(***************************************************************************)
(* The state the task bodies and the handlers work on, as one record.      *)
(***************************************************************************)
NoResp ==
    [op |-> "none", vm |-> "none", status |-> 0, job |-> 0, caller |-> "none"]

State == [vms |-> vms, cn |-> cn, jobs |-> jobs, tickets |-> tickets]

\* nics: whether NICs created in NAPI for the job's provision are there;
\* caller: params.context.caller; timedOut: a timeout ended the chain;
\* add_nics: how an add-nics request names its NICs ("networks": the job
\* creates them in NAPI, "macs": the caller has created them), "none" where
\* the NICs of the request are not followed; record: the state of the
\* migration record the job has stored; reservedNetworkIps: whether IPs are
\* reserved for the target of the migration; target: the state of the
\* target instance; procs: the sync processes that run for the migration
NewJob(name, v, autoboot, force, fabric, caller) ==
    [name |-> name, vm |-> v, execution |-> "queued", phase |-> "chain",
     idx |-> 1, markAsFailedOnError |-> TRUE, postBackState |-> "none",
     expects |-> "none", autoboot |-> autoboot,
     force_provision_failure |-> force, fabric |-> fabric, took |-> {},
     nics |-> (name = "provision"), caller |-> caller, timedOut |-> FALSE,
     add_nics |-> "none", record |-> "none", reservedNetworkIps |-> FALSE,
     target |-> "stopped", procs |-> {}]

CurrentTask(S, j) == Branch(S.jobs[j].name, S.jobs[j].phase)[S.jobs[j].idx]

Ended(job) == job.execution \in {"succeeded", "failed", "canceled"}

(***************************************************************************)
(* Waitlist tickets.  A ticket is active when it is created on an empty    *)
(* queue and queued otherwise; releasing the active ticket activates the   *)
(* oldest queued one.                                                      *)
(***************************************************************************)
HasTicket(q, j) == \E i \in 1..Len(q) : q[i].job = j
IsActive(q, j) == \E i \in 1..Len(q) : q[i].job = j /\ q[i].status = "active"
NoneActive(q) == \A i \in 1..Len(q) : q[i].status # "active"

createTicket(q, j) ==
    IF HasTicket(q, j) THEN q
    ELSE Append(q, [job |-> j,
                    status |-> IF q = <<>> THEN "active" ELSE "queued"])

activateNext(q) ==
    IF q # <<>> /\ NoneActive(q)
    THEN [q EXCEPT ![1].status = "active"]
    ELSE q

releaseTicket(q, j) ==
    activateNext(SelectSeq(q, LAMBDA t : t.job # j))

acquireVMTicket(S, j) ==
    [S EXCEPT !.tickets[VmKey(S.jobs[j].vm)] = createTicket(@, j),
              !.jobs[j].took = @ \cup {"vm"}]
releaseVMTicket(S, j) ==
    [S EXCEPT !.tickets[VmKey(S.jobs[j].vm)] = releaseTicket(@, j)]
acquireAllocationTicket(S, j) ==
    [S EXCEPT !.tickets[AllocationKey] = createTicket(@, j),
              !.jobs[j].took = @ \cup {"allocation"}]
releaseAllocationTicket(S, j) ==
    [S EXCEPT !.tickets[AllocationKey] = releaseTicket(@, j)]
acquireFabricNatTicket(S, j) ==
    IF S.jobs[j].fabric
    THEN [S EXCEPT !.tickets[FabricNatKey] = createTicket(@, j),
                   !.jobs[j].took = @ \cup {"fabric_nat"}]
    ELSE S
releaseFabricNatTicket(S, j) ==
    [S EXCEPT !.tickets[FabricNatKey] = releaseTicket(@, j)]

(***************************************************************************)
(* The store and the compute node.                                         *)
(***************************************************************************)
setVmState(S, v, st) == [S EXCEPT !.vms[v].state = st]

\* markAsDestroyed: ufds.markAsDestroyed(cache, vm); an error is only logged
markAsDestroyed(S, v, err) ==
    IF err THEN S ELSE setVmState(S, v, "destroyed")

\* getVm with sync=true: the VM is read from the compute node and cached,
\* or marked as destroyed when the compute node does not have it
syncVm(S, v) ==
    IF S.vms[v].server_uuid # "none"
    THEN IF S.cn[v] # "absent"
         THEN setVmState(S, v, S.cn[v])
         ELSE markAsDestroyed(S, v, FALSE)
    ELSE S

\* common.refreshVm: GET /vms/:uuid?sync=true
refreshVm(S, j) ==
    IF S.vms[S.jobs[j].vm].state = "none" THEN S ELSE syncVm(S, S.jobs[j].vm)

\* common.putVm: the VM as the compute node has it is put to the store
putVm(S, j) ==
    LET v == S.jobs[j].vm IN
    IF S.cn[v] # "absent"
    THEN [S EXCEPT !.vms[v] = [state |-> S.cn[v], server_uuid |-> SERVER]]
    ELSE IF S.vms[v].state = "none" THEN S
         ELSE setVmState(S, v, "destroyed")

(***************************************************************************)
(* The fabric-NAT sub-pipeline: with the fabric's ticket active, the job   *)
(* looks for a NAT zone of the fabric, provisions one if there is none,    *)
(* and waits for it.                                                       *)
(***************************************************************************)
ActiveNats(S) == {n \in NatIds : S.cn[n] # "absent"}

provisionFabricNatUnchecked(S, j) ==
    IF S.jobs[j].fabric /\ NatIds \ ActiveNats(S) # {}
    THEN [S EXCEPT !.cn[CHOOSE n \in NatIds \ ActiveNats(S) : TRUE] =
                      "running"]
    ELSE S

provisionFabricNat(S, j) ==
    IF S.jobs[j].fabric /\ ActiveNats(S) = {}
    THEN [S EXCEPT !.cn[CHOOSE n \in NatIds : TRUE] = "running"]
    ELSE S

(***************************************************************************)
(* Task bodies of the provision workflow.                                  *)
(***************************************************************************)
\* The values of params.autoboot: the booleans and undefined of JavaScript
\* are written "true", "false" and "undefined", the strings 'false' and
\* 'true' with their quotes.
AutobootValues == {"true", "false", "'false'", "'true'", "undefined"}

\* only the boolean false is taken for "do not boot"
provisionExpectsBooleanOnly(S, j) ==
    [S EXCEPT !.jobs[j].expects =
        IF S.jobs[j].autoboot = "false" THEN "stopped" ELSE "running"]

\* provision: job.expects from autoboot; the part before cnapi.createVm
provisionExpects(S, j) ==
    [S EXCEPT !.jobs[j].expects =
        IF S.jobs[j].autoboot = "false" \/ S.jobs[j].autoboot = "'false'"
        THEN "stopped" ELSE "running"]

\* provision: cnapi.createVm accepted the request
provision(S, j) ==
    [provisionExpects(S, j) EXCEPT !.jobs[j].markAsFailedOnError = FALSE]

\* common.updateNetworkParams of add-nics: the NICs of 'networks' are
\* created in NAPI; with 'macs' they are there already
updateNetworkParams(S, j) ==
    IF S.jobs[j].add_nics = "networks"
    THEN [S EXCEPT !.jobs[j].nics = TRUE]
    ELSE S

\* common.cleanupNics: the NICs of the VM are deleted from NAPI, unless
\* the provision has passed the point where the zone may exist
cleanupNics(S, j) ==
    IF S.jobs[j].markAsFailedOnError = FALSE
    THEN S
    ELSE [S EXCEPT !.jobs[j].nics = FALSE]

setPostBackFailedAlways(S, j) ==
    [S EXCEPT !.jobs[j].postBackState = "failed"]

setPostBackFailed(S, j) ==
    IF S.jobs[j].markAsFailedOnError = FALSE
    THEN S
    ELSE [S EXCEPT !.jobs[j].postBackState = "failed"]

\* common.postBack: the job's postBackState is posted back to the API,
\* which marks the VM as failed
postBack(S, j) ==
    IF S.jobs[j].postBackState = "failed"
       /\ S.vms[S.jobs[j].vm].state # "none"
    THEN setVmState(S, S.jobs[j].vm, "failed")
    ELSE S

\* common.waitTask of the provision: the zone exists as job.expects says
waitProvisionTask(S, j) ==
    [S EXCEPT !.cn[S.jobs[j].vm] = S.jobs[j].expects]

\* the zone action of start, stop, reboot, update and destroy
zoneAction(S, j) ==
    LET v == S.jobs[j].vm
        a == S.jobs[j].name
    IN  CASE a = "start" -> [S EXCEPT !.cn[v] = "running"]
          [] a = "stop" -> [S EXCEPT !.cn[v] = "stopped"]
          [] a = "destroy" -> [S EXCEPT !.cn[v] = "absent"]
          [] OTHER -> S

zoneActionPossible(S, j) ==
    LET v == S.jobs[j].vm
        a == S.jobs[j].name
    IN  CASE a = "start" -> S.cn[v] = "stopped"
          [] a = "stop" -> S.cn[v] = "running"
          [] a = "reboot" -> S.cn[v] = "running"
          [] a = "update" -> S.cn[v] # "absent"
          [] OTHER -> TRUE

(***************************************************************************)
(* Task bodies of the migration workflows.                                 *)
(***************************************************************************)
TARGET_SERVER == "s2"

storeInitialRecord(S, j) == [S EXCEPT !.jobs[j].record = "running"]
storeSuccess(S, j) == [S EXCEPT !.jobs[j].record = "successful"]
storeFailure(S, j) == [S EXCEPT !.jobs[j].record = "failed"]

\* modSwitch.tasks.stopVm and the wait for its job: the source is stopped
stopVm(S, j) ==
    IF S.cn[S.jobs[j].vm] = "absent" THEN S
    ELSE [S EXCEPT !.cn[S.jobs[j].vm] = "stopped"]
startSourceVm(S, j) ==
    IF S.cn[S.jobs[j].vm] = "absent" THEN S
    ELSE [S EXCEPT !.cn[S.jobs[j].vm] = "running"]
startTargetVm(S, j) == [S EXCEPT !.jobs[j].target = "running"]

reserveNetworkIps(S, j) == [S EXCEPT !.jobs[j].reservedNetworkIps = TRUE]
unreserveNetworkIps(S, j) == [S EXCEPT !.jobs[j].reservedNetworkIps = FALSE]

updateVmServerUuid(S, j) ==
    [S EXCEPT !.vms[S.jobs[j].vm].server_uuid = TARGET_SERVER]

\* the sync processes on the source and on the target server
cleanupSource(S, j) == [S EXCEPT !.jobs[j].procs = @ \ {"source"}]
cleanupTarget(S, j) == [S EXCEPT !.jobs[j].procs = @ \ {"target"}]
setupCnapiSource(S, j) == [S EXCEPT !.jobs[j].procs = @ \cup {"source"}]
setupCnapiTarget(S, j) == [S EXCEPT !.jobs[j].procs = @ \cup {"target"}]

(***************************************************************************)
(* The body of each task, by the task's name in the pipeline.              *)
(***************************************************************************)
AcquireVMTicketTasks ==
    {"cnapi.acquire_vm_ticket", "common.tasks.acquireVMTicket"}
WaitOnVMTicketTasks ==
    {"cnapi.wait_on_vm_ticket", "common.tasks.waitOnVMTicket"}
ReleaseVMTicketTasks ==
    {"cnapi.release_vm_ticket", "on_error.release_vm_ticket",
     "on_cancel.release_vm_ticket", "cnapi.cleanup_vm_ticket",
     "common.tasks.releaseVMTicket",
     "common.tasks.releaseVMTicketIgnoringErr"}
ReleaseAllocationTicketTasks ==
    {"common.tasks.releaseAllocationTicket",
     "cnapi.cleanup_allocation_ticket"}

TaskBody(S, j, t) ==
    LET name == S.jobs[j].name IN
    CASE t \in AcquireVMTicketTasks -> acquireVMTicket(S, j)
      [] t \in ReleaseVMTicketTasks -> releaseVMTicket(S, j)
      [] t = "common.tasks.acquireAllocationTicket" ->
            acquireAllocationTicket(S, j)
      [] t \in ReleaseAllocationTicketTasks -> releaseAllocationTicket(S, j)
      [] t = "cnapi.acquire_fabric_nat_tickets" -> acquireFabricNatTicket(S, j)
      [] t = fabricProvisionWaitTask -> provisionFabricNat(S, j)
      [] t = fabricReleaseTicketTask -> releaseFabricNatTicket(S, j)
      [] t = "cnapi.provision_vm" -> provision(S, j)
      [] t = "cnapi.wait_task" /\ name = "provision" ->
            waitProvisionTask(S, j)
      [] t = "vmapi.put_vm" -> putVm(S, j)
      [] t = "common.update_network_params" -> updateNetworkParams(S, j)
      [] t = "napi.cleanup_nics" -> cleanupNics(S, j)
      [] t = "set_post_back_failed" -> setPostBackFailed(S, j)
      [] t = "common.post_back" -> postBack(S, j)
      [] t \in {"vmapi.refresh_vm", "vmapi.refresh_vm_on_error"} ->
            refreshVm(S, j)
      [] t = "cnapi.zone_action" -> zoneAction(S, j)
      [] t = "migrationCommon.tasks.storeInitialRecord" ->
            storeInitialRecord(S, j)
      [] t = "migrationCommon.tasks.storeSuccess" -> storeSuccess(S, j)
      [] t = "migrationCommon.tasks.storeFailure" -> storeFailure(S, j)
      [] t = "modSwitch.tasks.stopVm" -> stopVm(S, j)
      [] t = "modSwitch.tasks.startSourceVm" -> startSourceVm(S, j)
      [] t = "modSwitch.tasks.startTargetVm" -> startTargetVm(S, j)
      [] t = "modSwitch.tasks.reserveNetworkIps" -> reserveNetworkIps(S, j)
      [] t = "modSwitch.tasks.unreserveNetworkIps" ->
            unreserveNetworkIps(S, j)
      [] t = "modSwitch.tasks.updateVmServerUuid" -> updateVmServerUuid(S, j)
      [] t = "cleanupSource" -> cleanupSource(S, j)
      [] t = "cleanupTarget" -> cleanupTarget(S, j)
      [] t = "migrationCommon.tasks.setupCnapiSource" ->
            setupCnapiSource(S, j)
      [] t = "migrationCommon.tasks.setupCnapiTarget" ->
            setupCnapiTarget(S, j)
      [] OTHER -> S

\* Whether the task can complete now: a wait on a ticket completes once the
\* ticket is active; some bodies always call back with an error.
TaskCanSucceed(S, j, t) ==
    LET job == S.jobs[j] IN
    CASE t \in WaitOnVMTicketTasks -> IsActive(S.tickets[VmKey(job.vm)], j)
      [] t = "common.tasks.waitOnAllocationTicket" ->
            IsActive(S.tickets[AllocationKey], j)
      [] t = fabricProvisionWaitTask ->
            job.fabric => IsActive(S.tickets[FabricNatKey], j)
      [] t = "cnapi.ensure_image" -> S.vms[job.vm].server_uuid # "none"
      [] t = "cnapi.provision_vm" -> ~job.force_provision_failure
      [] t = "cnapi.zone_action" -> zoneActionPossible(S, j)
      [] t = "modSwitch.tasks.ensureVmStopped" -> S.cn[job.vm] = "stopped"
      [] OTHER -> TRUE

\* What a failing task has done before it called back with the error.
TaskFailed(S, j, t) ==
    IF t = "cnapi.provision_vm" THEN provisionExpects(S, j) ELSE S

(***************************************************************************)
(* The workflow executor: a job runs the tasks of its chain in order; a    *)
(* task that fails or times out sends the job to onerror, a cancel sends   *)
(* it to oncancel; the job ends when its branch has run.                   *)
(***************************************************************************)
EndStateSucceeded(phase) == "succeeded"

EndState(phase) ==
    CASE phase = "chain" -> "succeeded"
      [] phase = "onerror" -> "failed"
      [] OTHER -> "canceled"

Advance(S, j) ==
    LET job == S.jobs[j]
        last == job.idx = Len(Branch(job.name, job.phase))
    IN  [S EXCEPT !.jobs[j] =
            IF last
            THEN [job EXCEPT !.execution = EndState(job.phase),
                             !.phase = "done", !.idx = 0]
            ELSE [job EXCEPT !.execution = "running", !.idx = job.idx + 1]]

EnterBranch(S, j, phase) ==
    [S EXCEPT !.jobs[j].execution = "running", !.jobs[j].phase = phase,
              !.jobs[j].idx = 1]

Set(S) ==
    /\ vms' = S.vms
    /\ cn' = S.cn
    /\ jobs' = S.jobs
    /\ tickets' = S.tickets

RunTask(j) ==
    /\ j \in 1..Len(jobs)
    /\ jobs[j].phase \in {"chain", "onerror", "oncancel"}
    /\ TaskCanSucceed(State, j, CurrentTask(State, j))
    /\ Set(Advance(TaskBody(State, j, CurrentTask(State, j)), j))
    /\ resp' = NoResp
    /\ UNCHANGED piping

FailTask(j) ==
    /\ j \in 1..Len(jobs)
    /\ jobs[j].phase = "chain"
    /\ Set(EnterBranch(TaskFailed(State, j, CurrentTask(State, j)), j,
                       "onerror"))
    /\ resp' = NoResp
    /\ UNCHANGED piping

\* A task exceeds its timeout, or the pipeline its own: what the task
\* wrote to the job is lost.
TimeoutTask(j) ==
    /\ j \in 1..Len(jobs)
    /\ jobs[j].phase = "chain"
    /\ Set(EnterBranch([State EXCEPT !.jobs[j].timedOut = TRUE], j,
                       "onerror"))
    /\ resp' = NoResp
    /\ UNCHANGED piping

CancelJob(j) ==
    /\ j \in 1..Len(jobs)
    /\ jobs[j].phase = "chain"
    /\ Set(EnterBranch(State, j, "oncancel"))
    /\ resp' = NoResp
    /\ UNCHANGED piping

(***************************************************************************)
(* The workflows as the executor runs them: provision jobs of new VMs,     *)
(* add-nics and migrate-begin jobs of existing ones.                       *)
(***************************************************************************)
WfNames == {"provision", "add-nics", "migrate-begin"}
CALLER == "c1"


InitWf ==
    /\ vms = [v \in VmIds |->
                IF v = "v1" THEN [state |-> "running", server_uuid |-> SERVER]
                ELSE NoVm]
    /\ cn = [v \in CnIds |->
                IF v \in {"v1", "nat1"} THEN "running" ELSE "absent"]
    /\ jobs = <<>>
    /\ tickets = [k \in TicketKeys |-> <<>>]
    /\ resp = NoResp
    /\ piping = {}

\* A job as the executor gets it; the provision and add-nics jobs attach a
\* NIC to the fabric network, except where add-nics jobs run alone.  A
\* provision job comes with its VM in state provisioning in the store;
\* every other job is of an existing VM.
CreateJob(name, v, fabric, max) ==
    /\ Len(jobs) < max
    /\ IF name = "provision"
       THEN /\ vms[v].state = "none"
            /\ vms' = [vms EXCEPT ![v] = [state |-> "provisioning",
                                          server_uuid |-> SERVER]]
       ELSE /\ vms[v].state \in {"running", "stopped"}
            /\ vms' = vms
    /\ jobs' = Append(jobs, NewJob(name, v, "undefined", FALSE, fabric, CALLER))
    /\ UNCHANGED <<cn, tickets, resp, piping>>

NextWf ==
    \/ \E name \in WfNames, v \in VmIds :
           CreateJob(name, v, name # "migrate-begin", MaxWfJobs)
    \/ \E j \in 1..MaxWfJobs : RunTask(j)
    \/ \E j \in 1..MaxWfJobs : FailTask(j)
    \/ \E j \in 1..MaxWfJobs : CancelJob(j)

SpecWf == InitWf /\ [][NextWf]_vars

\* Add-nics jobs only, all of one VM.
NextFifo ==
    \/ CreateJob("add-nics", "v1", FALSE, MaxFifoJobs)
    \/ \E j \in 1..MaxFifoJobs : RunTask(j)
    \/ \E j \in 1..MaxFifoJobs : FailTask(j)
    \/ \E j \in 1..MaxFifoJobs : CancelJob(j)

SpecFifo == InitWf /\ [][NextFifo]_vars

\* Provision and add-nics jobs, with task and pipeline timeouts.
NextJob ==
    \/ \E name \in {"provision", "add-nics"}, v \in VmIds :
           CreateJob(name, v, TRUE, MaxSoloJobs)
    \/ \E j \in 1..MaxSoloJobs : RunTask(j)
    \/ \E j \in 1..MaxSoloJobs : FailTask(j)
    \/ \E j \in 1..MaxSoloJobs : TimeoutTask(j)
    \/ \E j \in 1..MaxSoloJobs : CancelJob(j)

\* as InitWf, but no NAT zone of the fabric exists yet
InitJob ==
    /\ vms = [v \in VmIds |->
                IF v = "v1" THEN [state |-> "running", server_uuid |-> SERVER]
                ELSE NoVm]
    /\ cn = [v \in CnIds |-> IF v = "v1" THEN "running" ELSE "absent"]
    /\ jobs = <<>>
    /\ tickets = [k \in TicketKeys |-> <<>>]
    /\ resp = NoResp
    /\ piping = {}

SpecJob == InitJob /\ [][NextJob]_vars


(***************************************************************************)
(* The HTTP handlers of the VM endpoints.  A request is one step: the      *)
(* route's handlers run in order and a handler that calls next(err) ends   *)
(* the request with that error.                                            *)
(***************************************************************************)
VALID_VM_ACTIONS == {"start", "stop", "reboot", "update"}
validAction(action) == action \in VALID_VM_ACTIONS

\* the vm uuids createProvisionJob can return, and those no VM has yet
NewVmIds == {"v1"}
FreeVms == {v \in NewVmIds : vms[v].state = "none"}

\* caller: the caller of the request's x-context header
Respond(op, v, status, j, caller) ==
    resp' = [op |-> op, vm |-> v, status |-> status, job |-> j,
             caller |-> caller]

\* wfapi.create*Job: the job is registered with the executor
RegisterJobDefaultCaller(S, name, v, autoboot, force, caller) ==
    [S EXCEPT !.jobs = Append(@, NewJob(name, v, autoboot, force, FALSE,
                                        CALLER))]

RegisterJob(S, name, v, autoboot, force, caller) ==
    [S EXCEPT !.jobs = Append(@, NewJob(name, v, autoboot, force, FALSE,
                                        caller))]

\* streamResponse: the status it answers with, piped (sync=true) or not
streamResponseStatus(sync) == IF sync THEN 200 ELSE 200

\* createVm: the status it answers an accepted provision with
createVmStatus == 201

\* POST /vms: error is the status of validateVm's error, 0 without one
createVm(error, wfErr, server, autoboot, force, caller) ==
    /\ IF error # 0
       THEN /\ Respond("create", "none", error, 0, caller)
            /\ UNCHANGED <<vms, cn, jobs, tickets>>
       ELSE IF wfErr
       THEN /\ Respond("create", "none", 500, 0, caller)
            /\ UNCHANGED <<vms, cn, jobs, tickets>>
       ELSE /\ Len(jobs) < MaxJobs
            /\ FreeVms # {}
            /\ LET v == CHOOSE u \in FreeVms : TRUE
                   S == RegisterJob(State, "provision", v, autoboot, force,
                                    caller)
               IN  /\ Set([S EXCEPT !.vms[v] =
                              [state |-> "provisioning",
                               server_uuid |-> server]])
                   /\ Respond("create", v, createVmStatus, Len(jobs) + 1, caller)
    /\ UNCHANGED piping

updateVmCreatesJobUnvalidated(action, valid) ==
    validAction(action)

\* POST /vms/:uuid, before streamResponse: whether the action's method
\* asks wfapi for a job (changeVm: validateUpdate throws before it does)
updateVmCreatesJob(action, valid) ==
    /\ validAction(action)
    /\ action = "update" => valid

\* POST /vms/:uuid: the status of the response
updateVmStatus(action, valid, wfErr, sync) ==
    IF ~validAction(action) THEN 409
    ELSE IF action = "update" /\ ~valid THEN 409
    ELSE IF wfErr THEN 500
    ELSE streamResponseStatus(sync)

\* POST /vms/:uuid
updateVm(v, action, valid, wfErr, sync, caller) ==
    /\ IF vms[v].state = "none"
       THEN /\ Respond(action, v, 404, 0, caller)
            /\ UNCHANGED <<vms, cn, jobs, tickets>>
       ELSE IF updateVmCreatesJob(action, valid) /\ ~wfErr
       THEN /\ Len(jobs) < MaxJobs
            /\ Set(RegisterJob(State, action, v, "undefined", FALSE, caller))
            /\ Respond(action, v, updateVmStatus(action, valid, wfErr, sync),
                       Len(jobs) + 1, caller)
       ELSE /\ Respond(action, v, updateVmStatus(action, valid, wfErr, sync), 0, caller)
            /\ UNCHANGED <<vms, cn, jobs, tickets>>
    /\ UNCHANGED piping

\* DELETE /vms/:uuid: deleteVm, streamResponse, markAsDestroyed.  With
\* sync=true markAsDestroyed follows the end of the piped job.
deleteVmMarks(sync) == ~sync

deleteVm(v, wfErr, sync, ufdsErr, caller) ==
    IF vms[v].state = "none"
    THEN /\ Respond("destroy", v, 404, 0, caller)
         /\ UNCHANGED <<vms, cn, jobs, tickets, piping>>
    ELSE IF wfErr
    THEN /\ Respond("destroy", v, 500, 0, caller)
         /\ UNCHANGED <<vms, cn, jobs, tickets, piping>>
    ELSE /\ Len(jobs) < MaxJobs
         /\ LET S == RegisterJob(State, "destroy", v, "undefined", FALSE, caller)
            IN  IF deleteVmMarks(sync)
                THEN /\ Set(markAsDestroyed(S, v, ufdsErr))
                     /\ piping' = piping
                ELSE /\ Set(S)
                     /\ piping' = piping \cup {Len(jobs) + 1}
         /\ Respond("destroy", v, streamResponseStatus(sync), Len(jobs) + 1, caller)

\* The end of wfapi.pipeJob of a piped DELETE: with an error the request
\* ends there; without, once the job has ended, markAsDestroyed runs.
pipeJobEnd(j, err, ufdsErr) ==
    /\ j \in piping
    /\ piping' = piping \ {j}
    /\ IF err
       THEN UNCHANGED <<vms, cn, jobs, tickets>>
       ELSE /\ Ended(jobs[j])
            /\ Set(markAsDestroyed(State, jobs[j].vm, ufdsErr))
    /\ resp' = NoResp

\* GET /vms/:uuid
getVm(v, sync, cnErr, caller) ==
    /\ IF vms[v].state = "none"
       THEN /\ Respond("get", v, 404, 0, caller)
            /\ UNCHANGED <<vms, cn, jobs, tickets>>
       ELSE IF vms[v].server_uuid # "none" /\ sync
       THEN IF cnErr
            THEN /\ Respond("get", v, 500, 0, caller)
                 /\ UNCHANGED <<vms, cn, jobs, tickets>>
            ELSE /\ Set(syncVm(State, v))
                 /\ Respond("get", v, 200, 0, caller)
       ELSE /\ Respond("get", v, 200, 0, caller)
            /\ UNCHANGED <<vms, cn, jobs, tickets>>
    /\ UNCHANGED piping

Init ==
    /\ vms = [v \in VmIds |-> NoVm]
    /\ cn = [v \in CnIds |-> "absent"]
    /\ jobs = <<>>
    /\ tickets = [k \in TicketKeys |-> <<>>]
    /\ resp = NoResp
    /\ piping = {}

Next ==
    \/ \E error \in {0, 409, 422} :
       \E wfErr \in IF error = 0 THEN BOOLEAN ELSE {FALSE} :
       \E server \in IF error = 0 /\ ~wfErr THEN {SERVER, "none"} ELSE {"none"} :
       \E autoboot \in IF error = 0 /\ ~wfErr THEN {"true", "false"}
                                               ELSE {"false"} :
       \E force \in IF error = 0 /\ ~wfErr THEN BOOLEAN ELSE {FALSE} :
           createVm(error, wfErr, server, autoboot, force, CALLER)
    \/ \E v \in NewVmIds, action \in VALID_VM_ACTIONS \cup {"none", "explode"} :
       \E valid \in IF action = "update" THEN BOOLEAN ELSE {TRUE} :
       \E wfErr \in IF validAction(action) /\ valid THEN BOOLEAN ELSE {FALSE} :
       \E sync \in IF validAction(action) /\ valid /\ ~wfErr
                    THEN BOOLEAN ELSE {FALSE} :
           updateVm(v, action, valid, wfErr, sync, CALLER)
    \/ \E v \in NewVmIds, wfErr \in BOOLEAN :
       \E sync, ufdsErr \in IF wfErr THEN {FALSE} ELSE BOOLEAN :
           deleteVm(v, wfErr, sync, ufdsErr, CALLER)
    \/ \E j \in 1..MaxJobs, err \in BOOLEAN :
       \E ufdsErr \in IF err THEN {FALSE} ELSE BOOLEAN :
           pipeJobEnd(j, err, ufdsErr)
    \/ \E v \in NewVmIds, sync \in BOOLEAN :
       \E cnErr \in IF sync THEN BOOLEAN ELSE {FALSE} :
           getVm(v, sync, cnErr, CALLER)
    \/ \E j \in 1..MaxJobs : RunTask(j)
    \/ \E j \in 1..MaxJobs : FailTask(j)
    \/ \E j \in 1..MaxJobs : CancelJob(j)

Spec == Init /\ [][Next]_vars

(***************************************************************************)
(* Properties of the tickets.                                              *)
(***************************************************************************)
Job(j) == jobs[j]
Task(j) == CurrentTask(State, j)
ActiveTickets(k) ==
    {i \in 1..Len(tickets[k]) : tickets[k][i].status = "active"}

\* The tasks a job runs between the granted VM ticket and its release,
\* the release included.
VmSectionTasks(name) ==
    CASE name = "add-nics" ->
            {fabricProvisionWaitTask, "cnapi.update_vm", "cnapi.wait_task",
             "vmapi.check_updated", "vmapi.put_vm", "fwapi.update",
             "cnapi.release_vm_ticket"}
      [] name = "migrate-begin" ->
            {"migrationCommon.tasks.storeInitialRecord",
             "migrationCommon.tasks.disallowRetry",
             "common.tasks.releaseVMTicket"}
      [] OTHER -> {}

InVmSection(j) ==
    /\ Job(j).phase = "chain"
    /\ Task(j) \in VmSectionTasks(Job(j).name)

InAllocationSection(j) ==
    /\ Job(j).phase = "chain"
    /\ Job(j).name = "migrate-begin"
    /\ Task(j) \in {"migrationBegin.tasks.allocateServer",
                    "common.tasks.releaseAllocationTicket"}

\* C1: every ticket key has at most one active ticket, and no two jobs of
\* the same VM are inside their VM-ticket sections at the same time (nor two
\* jobs inside the allocation-ticket section).
C1_MutualExclusion ==
    /\ \A k \in TicketKeys : Cardinality(ActiveTickets(k)) <= 1
    /\ \A a, b \in 1..Len(jobs) :
          a # b /\ Job(a).vm = Job(b).vm => ~(InVmSection(a) /\ InVmSection(b))
    /\ \A a, b \in 1..Len(jobs) :
          a # b => ~(InAllocationSection(a) /\ InAllocationSection(b))

\* Two jobs of one VM: one inside its section, the other waiting on its
\* queued ticket.
C1_Witness ==
    \E a, b \in 1..Len(jobs) :
        /\ a # b /\ Job(a).vm = Job(b).vm
        /\ InVmSection(a)
        /\ Job(b).phase = "chain" /\ Task(b) \in WaitOnVMTicketTasks
        /\ HasTicket(tickets[VmKey(Job(b).vm)], b)
        /\ ~IsActive(tickets[VmKey(Job(b).vm)], b)

\* C2: a job that has ended (succeeded, failed or canceled) is named by no
\* ticket, neither as holder nor as waiter.
C2_EndedJobHasNoTicket ==
    \A j \in 1..Len(jobs) :
        Ended(Job(j)) => \A k \in TicketKeys : ~HasTicket(tickets[k], j)

\* A job that failed after it took the VM and the fabric-NAT ticket, and a
\* job that was canceled after it took a ticket.
C2_Witness ==
    \E a, b \in 1..Len(jobs) :
        /\ Job(a).execution = "failed" /\ {"vm", "fabric_nat"} \subseteq Job(a).took
        /\ Job(b).execution = "canceled" /\ Job(b).took # {}

\* C3: tickets are granted in the order they were requested: in every queue
\* only the oldest ticket is active, and a job inside its VM-ticket section
\* holds the oldest ticket of the VM.
C3_Fifo ==
    /\ \A k \in TicketKeys : \A i \in 2..Len(tickets[k]) :
          tickets[k][i].status = "queued"
    /\ \A j \in 1..Len(jobs) :
          InVmSection(j) => tickets[VmKey(Job(j).vm)][1].job = j

\* A later requester holds the active ticket after the earlier requesters
\* have gone, while a still later one is queued behind it.
C3_Witness ==
    \E k \in TicketKeys :
        /\ Len(tickets[k]) = 2
        /\ tickets[k][1].job = 2 /\ tickets[k][1].status = "active"
        /\ tickets[k][2].job = 3 /\ tickets[k][2].status = "queued"
        /\ Ended(Job(1)) /\ "vm" \in Job(1).took
        /\ InVmSection(2)

(***************************************************************************)
(* Properties of the HTTP handlers and of the VM lifecycle.                *)
(***************************************************************************)
DestroyJobs(v) ==
    {j \in 1..Len(jobs) : jobs[j].name = "destroy" /\ jobs[j].vm = v}

\* C4: every accepted mutation request (one that registered a job) is
\* answered with status 202 and the uuids of the VM and of the job.
C4_Accepted202 ==
    resp.job # 0 =>
        /\ resp.status = 202
        /\ resp.job \in 1..Len(jobs)
        /\ jobs[resp.job].vm = resp.vm

\* C5: a step that answers a request with 409 or 422 creates no job, takes
\* no ticket and leaves every VM record as it was.
C5_RejectedChangesNothing ==
    [][resp'.status \in {409, 422} =>
           /\ jobs' = jobs
           /\ tickets' = tickets
           /\ vms' = vms]_vars

\* an update of an existing VM with jobs has been rejected by validateUpdate
C5_Witness ==
    /\ resp.status = 409
    /\ resp.op = "update"
    /\ vms[resp.vm].state \in {"running", "stopped"}
    /\ jobs # <<>>

LifecycleEdges ==
    {<<"none", "provisioning">>, <<"provisioning", "running">>,
     <<"provisioning", "stopped">>, <<"provisioning", "failed">>,
     <<"running", "stopped">>, <<"stopped", "running">>}
    \cup {<<st, "destroyed">> :
             st \in {"provisioning", "running", "stopped", "failed"}}

\* C6: every VM that exists is in one of the five states and every change
\* of a VM's state is an edge of the lifecycle graph (read with the edge
\* from provisioning to stopped that a provision with autoboot=false takes).
C6_Lifecycle ==
    [][\A v \in VmIds :
          /\ vms'[v].state \in VmStates \cup {"none"}
          /\ vms'[v].state # vms[v].state =>
                <<vms[v].state, vms'[v].state>> \in LifecycleEdges]_vars

\* C7: a VM whose provision job has not ended and whose zone does not exist
\* yet is shown as provisioning; after a succeeded provision it is running
\* or stopped, after a failed one it is failed (VMs that a DELETE was
\* accepted for are left out).
C7_ProvisionShown ==
    \A j \in 1..Len(jobs) :
        jobs[j].name = "provision" /\ DestroyJobs(jobs[j].vm) = {} =>
            LET v == jobs[j].vm IN
            /\ jobs[j].phase = "chain" /\ ~Ended(jobs[j]) /\ cn[v] = "absent"
                  => vms[v].state = "provisioning"
            /\ jobs[j].execution = "succeeded"
                  => vms[v].state \in {"running", "stopped"}
            /\ jobs[j].execution = "failed" => vms[v].state = "failed"

\* C8: a start, stop or reboot of a VM that is provisioning is not accepted:
\* it creates no job and is not answered with a 2xx.
C8_ProvisioningRejects ==
    [][\A v \in VmIds :
          /\ vms[v].state = "provisioning"
          /\ resp'.vm = v
          /\ resp'.op \in {"start", "stop", "reboot"}
          => /\ jobs' = jobs
             /\ resp'.status \notin {200, 201, 202}]_vars

\* C9: a VM that is destroyed stays destroyed, and a GET of it is not
\* answered 404.
C9_DestroyedIsTerminal ==
    [][\A v \in VmIds :
          vms[v].state = "destroyed" =>
             /\ vms'[v].state = "destroyed"
             /\ resp'.op = "get" /\ resp'.vm = v => resp'.status # 404]_vars

\* C10: a VM that a DELETE was accepted for is destroyed only when one of
\* its destroy jobs has succeeded.
C10_DestroyedAfterJobSucceeded ==
    \A v \in VmIds :
        DestroyJobs(v) # {} /\ vms[v].state = "destroyed" =>
            \E j \in DestroyJobs(v) : jobs[j].execution = "succeeded"

(***************************************************************************)
(* Properties of the outcome of a job.                                     *)
(***************************************************************************)
\* C11: a provision job that failed with markAsFailedOnError never set to
\* false has left no NIC of its VM in NAPI.
C11_FailedProvisionHasNoNics ==
    \A j \in 1..Len(jobs) :
        /\ Job(j).name = "provision"
        /\ Job(j).execution = "failed"
        /\ Job(j).markAsFailedOnError = TRUE
        => ~Job(j).nics

\* a provision has failed before cnapi.provision_vm was accepted
C11_Witness ==
    \E j \in 1..Len(jobs) :
        /\ Job(j).name = "provision"
        /\ Job(j).execution = "failed"
        /\ Job(j).markAsFailedOnError = TRUE
        /\ Job(j).expects = "none"
        /\ ~Job(j).timedOut

FailedAfterAccept(j) ==
    /\ Job(j).name = "provision"
    /\ Job(j).execution = "failed"
    /\ Job(j).markAsFailedOnError = FALSE

C16_TimeoutEntersOnError ==
    \A j \in 1..Len(jobs) :
        Job(j).timedOut =>
            \/ Job(j).phase = "onerror" /\ ~Ended(Job(j))
            \/ Job(j).execution = "failed"

\* a provision timed out in cnapi.wait_task and has run its onerror to
\* the end
C16_Witness ==
    \E j \in 1..Len(jobs) :
        /\ Job(j).name = "provision"
        /\ Job(j).timedOut
        /\ Job(j).markAsFailedOnError = FALSE
        /\ Job(j).execution = "failed"

RefreshTasks == {"vmapi.refresh_vm", "vmapi.refresh_vm_on_error"}

\* C15: a canceled job has run an oncancel branch that refreshes the VM
\* from the compute node, and holds no ticket, whatever its pipeline.
C15_CanceledRefreshedAndReleased ==
    \A j \in 1..Len(jobs) :
        Job(j).execution = "canceled" =>
            /\ \A k \in TicketKeys : ~HasTicket(tickets[k], j)
            /\ \E i \in 1..Len(OnCancel(Job(j).name)) :
                   OnCancel(Job(j).name)[i] \in RefreshTasks

(***************************************************************************)
(* The audit trail: requests of several callers, interleaved with the     *)
(* executor.                                                               *)
(***************************************************************************)
Callers == {"c1", "c2"}

NextAudit ==
    \/ \E wfErr \in BOOLEAN, caller \in Callers :
           createVm(0, wfErr, SERVER, "true", FALSE, caller)
    \/ \E v \in NewVmIds, action \in VALID_VM_ACTIONS, caller \in Callers :
           updateVm(v, action, TRUE, FALSE, FALSE, caller)
    \/ \E v \in NewVmIds, caller \in Callers :
           deleteVm(v, FALSE, FALSE, FALSE, caller)
    \/ \E v \in NewVmIds, caller \in Callers :
           getVm(v, FALSE, FALSE, caller)
    \/ \E j \in 1..MaxJobs : RunTask(j)
    \/ \E j \in 1..MaxJobs : FailTask(j)
    \/ \E j \in 1..MaxJobs : CancelJob(j)

SpecAudit == Init /\ [][NextAudit]_vars

\* GET /jobs?vm_uuid=v: the names of the VM's jobs in creation order
listJobsOldestFirst(js, v) ==
    LET mine == SelectSeq(js, LAMBDA job : job.vm = v)
    IN  [i \in 1..Len(mine) |-> mine[i].name]

\* GET /jobs?vm_uuid=v: the names of the VM's jobs, the newest first
listJobs(js, v) ==
    LET mine == SelectSeq(js, LAMBDA job : job.vm = v)
    IN  [i \in 1..Len(mine) |-> mine[Len(mine) + 1 - i].name]

\* the name of the job a mutation creates
JobNameOf(op) == IF op = "create" THEN "provision" ELSE op

\* C18: the job a request creates records the caller of that request, and
\* no later step changes the caller a job recorded.
C18_JobRecordsCaller ==
    [][/\ resp'.job # 0 => jobs'[resp'.job].caller = resp'.caller
       /\ \A j \in 1..Len(jobs) : jobs'[j].caller = jobs[j].caller]_vars

\* two jobs of one VM, created by different callers
C18_Witness ==
    /\ Len(jobs) = 2
    /\ jobs[1].vm = jobs[2].vm
    /\ jobs[1].caller = "c2" /\ jobs[2].caller = "c1"
    /\ resp.job = 2 /\ resp.caller = "c1"

\* C19: an accepted mutation puts exactly one job, named after the
\* mutation, at the head of the VM's job list; no other step changes the
\* list of any VM.
C19_JobListNewestFirst ==
    [][\A v \in VmIds :
         listJobs(jobs', v) =
             IF resp'.job # 0 /\ resp'.vm = v
             THEN <<JobNameOf(resp'.op)>> \o listJobs(jobs, v)
             ELSE listJobs(jobs, v)]_vars

\* a provision followed by a stop: the list is stop, provision
C19_Witness ==
    /\ resp.op = "stop" /\ resp.job = 2
    /\ listJobs(jobs, resp.vm) = <<"stop", "provision">>

(***************************************************************************)
(* GET /vms: the search of the store, with a filter, a limit and an        *)
(* offset.                                                                 *)
(***************************************************************************)
MaxLimit == 3
MaxOffset == 4
NoLimit == -1

\* the order in which the store returns its records
ListOrder == <<"v1", "v2", "v3">>
ListVmIds == {ListOrder[i] : i \in 1..Len(ListOrder)}
ListStates == {"none", "running", "stopped", "destroyed"}
Filters == {"any", "active", "running", "stopped", "destroyed"}

\* does the record of the store match the state filter of the query
matches(vm, filter) ==
    /\ vm.state # "none"
    /\ CASE filter = "any" -> TRUE
         [] filter = "active" -> vm.state \notin {"destroyed", "failed"}
         [] OTHER -> vm.state = filter

\* skip offset entries, then keep at most limit entries
RECURSIVE page(_, _, _)
page(s, limit, offset) ==
    IF s = <<>> \/ limit = 0 THEN <<>>
    ELSE IF offset > 0 THEN page(Tail(s), limit, offset - 1)
    ELSE <<Head(s)>> \o page(Tail(s), IF limit = NoLimit THEN limit
                                        ELSE limit - 1, 0)

listVmsPageBeforeFilter(store, filter, limit, offset) ==
    SelectSeq(page(ListOrder, limit, offset),
              LAMBDA v : matches(store[v], filter))

\* ufds.listVms(params): the uuids of the matching records, paginated
listVms(store, filter, limit, offset) ==
    page(SelectSeq(ListOrder, LAMBDA v : matches(store[v], filter)),
         limit, offset)

\* the headers the handler sets on the response: [name, value] pairs
listVmsHeaders == {}

\* GET /vms
listVmsReq(filter, limit, offset) ==
    /\ resp' = [op |-> "list", status |-> 200, filter |-> filter,
                limit |-> limit, offset |-> offset,
                headers |-> listVmsHeaders,
                body |-> listVms(vms, filter, limit, offset)]
    /\ UNCHANGED <<vms, cn, jobs, tickets, piping>>

InitList ==
    /\ vms \in [ListVmIds -> {[NoVm EXCEPT !.state = st] : st \in ListStates}]
    /\ cn = [v \in CnIds |-> "absent"]
    /\ jobs = <<>>
    /\ tickets = [k \in TicketKeys |-> <<>>]
    /\ resp = NoResp
    /\ piping = {}

NextList ==
    \E filter \in Filters, limit \in {NoLimit} \cup 0..MaxLimit,
       offset \in 0..MaxOffset :
        listVmsReq(filter, limit, offset)

SpecList == InitList /\ [][NextList]_vars

\* the entries K+1 .. K+L of s, as far as s has them
Slice(s, K, L) ==
    SubSeq(s, K + 1, IF K + L < Len(s) THEN K + L ELSE Len(s))

\* C20: a list with limit L and offset K is the slice [K, K+L) of the list
\* of the same filter without pagination, with status 200; with K at or
\* beyond the total it is empty.
C20_PageIsSlice ==
    resp.op = "list" =>
        LET all == listVms(vms, resp.filter, NoLimit, 0)
        IN  /\ resp.status = 200
            /\ resp.limit # NoLimit =>
                   resp.body = Slice(all, resp.offset, resp.limit)
            /\ resp.limit = NoLimit =>
                   resp.body = Slice(all, resp.offset, Len(all))
            /\ resp.offset >= Len(all) => resp.body = <<>>

\* a page from the middle of a filtered list whose filter drops a record
\* before the page
C20_Witness ==
    /\ resp.op = "list" /\ resp.filter = "active"
    /\ resp.limit = 1 /\ resp.offset = 1
    /\ vms["v1"].state = "destroyed"
    /\ resp.body = <<"v3">>

\* C21: the response of GET /vms carries the header x-joyent-resource-count
\* with the number of VMs matching the filter, whatever the limit and the
\* offset.
C21_ResourceCount ==
    resp.op = "list" =>
        \E h \in resp.headers :
            /\ h.name = "x-joyent-resource-count"
            /\ h.value = Len(listVms(vms, resp.filter, NoLimit, 0))

(***************************************************************************)
(* GET /vms with structured filters, a query and a predicate, on a store   *)
(* whose VMs change state.                                                 *)
(***************************************************************************)
OWNER == "o1"
OTHER_OWNER == "o2"
UNKNOWN_OWNER == "o9"
SMALL_RAM == 128
LARGE_RAM == 256

\* the attributes of the VMs of the store that is searched
SearchVm(v) ==
    CASE v = "v1" -> [owner_uuid |-> OWNER, ram |-> SMALL_RAM,
                      brand |-> "joyent-minimal"]
      [] v = "v2" -> [owner_uuid |-> OWNER, ram |-> LARGE_RAM,
                      brand |-> "lx"]
      [] OTHER -> [owner_uuid |-> OTHER_OWNER, ram |-> SMALL_RAM,
                   brand |-> "joyent-minimal"]

\* one comparison of a filter: attribute, operator, value
Clause(attr, op, val) == [attr |-> attr, op |-> op, val |-> val]

holds(vm, c) ==
    CASE c.op = "eq" -> vm[c.attr] = c.val
      [] c.op = "ne" -> vm[c.attr] # c.val
      [] c.op = "ge" -> vm[c.attr] >= c.val
      [] OTHER -> FALSE

structuredClausesActiveNotDestroyed(params) ==
    (IF params.owner_uuid = "any" THEN <<>>
     ELSE <<Clause("owner_uuid", "eq", params.owner_uuid)>>)
    \o (CASE params.state = "any" -> <<>>
          [] params.state = "active" ->
                <<Clause("state", "ne", "destroyed")>>
          [] OTHER -> <<Clause("state", "eq", params.state)>>)

\* the structured filters of the query string
structuredClauses(params) ==
    (IF params.owner_uuid = "any" THEN <<>>
     ELSE <<Clause("owner_uuid", "eq", params.owner_uuid)>>)
    \o (CASE params.state = "any" -> <<>>
          [] params.state = "active" ->
                <<Clause("state", "ne", "destroyed"),
                  Clause("state", "ne", "failed")>>
          [] OTHER -> <<Clause("state", "eq", params.state)>>)

searchFilterQueryOnly(params) ==
    IF params.query # <<>> THEN params.query \o params.predicate
    ELSE structuredClauses(params) \o params.query \o params.predicate

\* the filter of a search: the structured filters, the query and the
\* predicate, all of which a VM has to satisfy
searchFilter(params) ==
    structuredClauses(params) \o params.query \o params.predicate

searchVms(store, params) ==
    LET f == searchFilter(params)
    IN  SelectSeq(ListOrder, LAMBDA v :
            /\ store[v].state # "none"
            /\ \A i \in 1..Len(f) : holds(store[v], f[i]))

\* GET /vms?owner_uuid=..&state=..&query=..&predicate=..
searchVmsReq(params) ==
    /\ resp' = [op |-> "list", status |-> 200, params |-> params,
                headers |-> listVmsHeaders, body |-> searchVms(vms, params)]
    /\ UNCHANGED <<vms, cn, jobs, tickets, piping>>

\* a VM of the store is marked as destroyed
storeDestroyed(v) ==
    /\ vms[v].state \notin {"none", "destroyed"}
    /\ Set(markAsDestroyed(State, v, FALSE))
    /\ resp' = NoResp
    /\ UNCHANGED piping

\* the provision of a VM ends: the VM runs, or is posted back as failed
storeProvisioned(v, st) ==
    /\ vms[v].state = "provisioning"
    /\ Set(setVmState(State, v, st))
    /\ resp' = NoResp
    /\ UNCHANGED piping

SearchStates == {"none", "provisioning", "running"}
SearchQueries ==
    {<<>>, <<Clause("ram", "eq", SMALL_RAM)>>,
     <<Clause("ram", "ge", LARGE_RAM)>>}
SearchPredicates ==
    {<<>>, <<Clause("brand", "eq", "joyent-minimal")>>,
     <<Clause("brand", "ne", "joyent-minimal")>>}
SearchParams ==
    [owner_uuid : {"any", OWNER, OTHER_OWNER, UNKNOWN_OWNER},
     state : {"any", "active", "running", "destroyed"},
     query : SearchQueries, predicate : SearchPredicates]

InitSearch ==
    /\ \E st \in [ListVmIds -> SearchStates] :
          vms = [v \in ListVmIds |->
                   [state |-> st[v], server_uuid |-> SERVER,
                    owner_uuid |-> SearchVm(v).owner_uuid,
                    ram |-> SearchVm(v).ram, brand |-> SearchVm(v).brand]]
    /\ cn = [v \in CnIds |-> "absent"]
    /\ jobs = <<>>
    /\ tickets = [k \in TicketKeys |-> <<>>]
    /\ resp = NoResp
    /\ piping = {}

NextSearch ==
    \/ \E params \in SearchParams : searchVmsReq(params)
    \/ \E v \in ListVmIds : storeDestroyed(v)
    \/ \E v \in ListVmIds, st \in {"running", "failed"} :
           storeProvisioned(v, st)

SpecSearch == InitSearch /\ [][NextSearch]_vars

\* does the VM pass the three filters of the request, each taken alone
passesStructured(vm, params) ==
    /\ params.owner_uuid # "any" => vm.owner_uuid = params.owner_uuid
    /\ params.state \notin {"any", "active"} => vm.state = params.state
    /\ params.state = "active" => vm.state \notin {"destroyed", "failed"}
passesQuery(vm, params) ==
    \A i \in 1..Len(params.query) : holds(vm, params.query[i])
passesPredicate(vm, params) ==
    \A i \in 1..Len(params.predicate) : holds(vm, params.predicate[i])

Listed(r) == {r.body[i] : i \in 1..Len(r.body)}

\* C22: the VMs returned are exactly those that satisfy the structured
\* filters, the query and the predicate; none has another owner than the
\* owner_uuid asked for, and an unknown owner_uuid gives an empty list
\* with status 200.
C22_FiltersIntersect ==
    resp.op = "list" =>
        /\ Listed(resp) =
              {v \in ListVmIds :
                  /\ vms[v].state # "none"
                  /\ passesStructured(vms[v], resp.params)
                  /\ passesQuery(vms[v], resp.params)
                  /\ passesPredicate(vms[v], resp.params)}
        /\ resp.params.owner_uuid # "any" =>
              \A v \in Listed(resp) : vms[v].owner_uuid = resp.params.owner_uuid
        /\ resp.params.owner_uuid = UNKNOWN_OWNER =>
              resp.body = <<>> /\ resp.status = 200

\* the three filters together leave one VM of the owner, and VMs of the
\* store pass the query and the predicate that are not the owner's
C22_Witness ==
    /\ resp.op = "list"
    /\ resp.params.owner_uuid = OTHER_OWNER
    /\ resp.params.query = <<Clause("ram", "eq", SMALL_RAM)>>
    /\ resp.params.predicate = <<Clause("brand", "eq", "joyent-minimal")>>
    /\ resp.body = <<"v3">>
    /\ vms["v1"].state = "running"

MaxTagJobs == 3
ValidationFailedStatus == 409
tagsAcceptedStatus == 202

TagKey(ns, name) == [ns |-> ns, name |-> name]
DOCKER_LABEL_PREFIX == "docker:label:com.docker."
ROLE == TagKey("", "role")
GROUP == TagKey("", "group")
SDC_DOCKER == TagKey("", "sdc_docker")
DOCKER_LABEL == TagKey(DOCKER_LABEL_PREFIX, "blah")
TagKeys == {ROLE, GROUP, DOCKER_LABEL, SDC_DOCKER}
TagValues == {"a", "b"}
NoTags == [k \in {} |-> "a"]
NoKey == TagKey("", "")

\* a key beginning docker:label:com.docker. or equal to sdc_docker
isReservedTag(k) == k.ns = DOCKER_LABEL_PREFIX \/ k = SDC_DOCKER

Tag1(k, x) == [i \in {k} |-> x]
mergeTags(old, new) ==
    [k \in DOMAIN old \cup DOMAIN new |->
        IF k \in DOMAIN new THEN new[k] ELSE old[k]]
removeTag(old, key) == [k \in DOMAIN old \ {key} |-> old[k]]

\* the tag sets of the requests
RequestTags ==
    {NoTags, Tag1(ROLE, "a"), Tag1(ROLE, "b"),
     mergeTags(Tag1(ROLE, "b"), Tag1(GROUP, "a")),
     Tag1(DOCKER_LABEL, "a"), Tag1(DOCKER_LABEL, "b"),
     mergeTags(Tag1(GROUP, "a"), Tag1(DOCKER_LABEL, "b")),
     Tag1(SDC_DOCKER, "a")}
\* the brand of the VMs docker provisions, and another brand
DOCKER_BRAND == "lx"
Brands == {"joyent-minimal", DOCKER_BRAND}
TagOps == {"add_tags", "set_tags", "update", "delete_tag", "delete_tags"}

\* the tags of a VM once the job of an accepted request has succeeded
applyTagsSetMerges(op, old, T, key) ==
    CASE op \in {"set_tags", "update", "add_tags"} -> mergeTags(old, T)
      [] op = "delete_tag" -> removeTag(old, key)
      [] OTHER -> NoTags

applyTagsAddReplaces(op, old, T, key) ==
    CASE op \in {"set_tags", "update", "add_tags"} -> T
      [] op = "delete_tag" -> removeTag(old, key)
      [] OTHER -> NoTags

applyTags(op, old, T, key) ==
    CASE op \in {"set_tags", "update"} -> T
      [] op = "add_tags" -> mergeTags(old, T)
      [] op = "delete_tag" -> removeTag(old, key)
      [] OTHER -> NoTags

\* the keys of the tag set the request asks for
keptKeys(op, old, T, key) ==
    CASE op \in {"set_tags", "update"} -> DOMAIN T
      [] op = "add_tags" -> DOMAIN old \cup DOMAIN T
      [] op = "delete_tag" -> DOMAIN old \ {key}
      [] OTHER -> {}

\* the reserved keys a request gives a value; sameOk: a reserved key with
\* the value the VM has already is let through
notSupportedKeysNone(old, T, sameOk) == {}

notSupportedKeys(old, T, sameOk) ==
    {k \in DOMAIN T :
        /\ isReservedTag(k)
        /\ ~(sameOk /\ k \in DOMAIN old /\ old[k] = T[k])}

\* the reserved keys of the VM a request would remove
deletedKeys(op, old, T, key) ==
    {k \in DOMAIN old : isReservedTag(k) /\ k \notin keptKeys(op, old, T, key)}

NOT_SUPPORTED == "Special tag \"%s\" not supported"
MAY_NOT_BE_DELETED == "Special tag \"%s\" may not be deleted"

\* the error of the validation of a tag request on an existing VM: none,
\* or a message and the key it names
validateTags(op, old, T, key, sameOk) ==
    IF notSupportedKeys(old, T, sameOk) # {}
    THEN [message |-> NOT_SUPPORTED,
          key |-> CHOOSE k \in notSupportedKeys(old, T, sameOk) : TRUE]
    ELSE IF deletedKeys(op, old, T, key) # {}
    THEN [message |-> MAY_NOT_BE_DELETED,
          key |-> CHOOSE k \in deletedKeys(op, old, T, key) : TRUE]
    ELSE [message |-> "none", key |-> NoKey]

\* the error of the validation of the tags of a provision
validateProvisionTags(brand, T) == [message |-> "none", key |-> NoKey]

TagJob(op, v, T, key) ==
    [op |-> op, vm |-> v, tags |-> T, key |-> key, execution |-> "queued"]

TagResp(op, v, status, j, err, T, key) ==
    [op |-> op, vm |-> v, status |-> status, job |-> j,
     code |-> IF status = ValidationFailedStatus THEN "ValidationFailed"
              ELSE "none",
     message |-> err.message, errkey |-> err.key, tags |-> T, key |-> key]

\* POST /vms with tags
createVmWithTags(v, brand, T) ==
    /\ vms[v].state = "none"
    /\ Len(jobs) < MaxTagJobs
    /\ LET err == validateProvisionTags(brand, T) IN
       IF err.message # "none"
       THEN /\ resp' = TagResp("provision", v, ValidationFailedStatus, 0, err,
                               T, NoKey)
            /\ UNCHANGED <<vms, jobs>>
       ELSE /\ vms' = [vms EXCEPT ![v] = [state |-> "provisioning",
                                          server_uuid |-> SERVER,
                                          brand |-> brand, tags |-> NoTags]]
            /\ jobs' = Append(jobs, TagJob("provision", v, T, NoKey))
            /\ resp' = TagResp("provision", v, createVmStatus, Len(jobs) + 1,
                               err, T, NoKey)
    /\ UNCHANGED <<cn, tickets, piping>>

\* common.validateUpdate(req.params) of an update of the tags: the VM's
\* own tags are not among the parameters of the request
validateUpdateTags(T) == validateTags("update", NoTags, T, NoKey, FALSE)

\* POST /vms/:uuid?action=update with tags: changeVm, streamResponse
changeVmTags(v, T, wfErr) ==
    /\ vms[v].state = "running"
    /\ LET err == validateUpdateTags(T)
           ok == [message |-> "none", key |-> NoKey]
       IN  IF err.message # "none"
           THEN /\ resp' = TagResp("update", v, ValidationFailedStatus, 0,
                                   err, T, NoKey)
                /\ UNCHANGED jobs
           ELSE IF wfErr
           THEN /\ resp' = TagResp("update", v, 500, 0, ok, T, NoKey)
                /\ UNCHANGED jobs
           ELSE /\ Len(jobs) < MaxTagJobs
                /\ jobs' = Append(jobs, TagJob("update", v, T, NoKey))
                /\ resp' = TagResp("update", v, streamResponseStatus(FALSE),
                                   Len(jobs) + 1, ok, T, NoKey)
    /\ UNCHANGED <<vms, cn, tickets, piping>>

\* POST, PUT and DELETE /vms/:uuid/tags and DELETE /vms/:uuid/tags/:key
tagsReq(op, v, T, key, sameOk) ==
    /\ vms[v].state = "running"
    /\ Len(jobs) < MaxTagJobs
    /\ LET err == validateTags(op, vms[v].tags, T, key, sameOk) IN
       IF err.message # "none"
       THEN /\ resp' = TagResp(op, v, ValidationFailedStatus, 0, err, T, key)
            /\ UNCHANGED <<vms, jobs>>
       ELSE /\ jobs' = Append(jobs, TagJob(op, v, T, key))
            /\ resp' = TagResp(op, v, tagsAcceptedStatus, Len(jobs) + 1, err,
                               T, key)
            /\ UNCHANGED vms
    /\ UNCHANGED <<cn, tickets, piping>>

\* the job of an accepted request ends
tagJobEnds(j, ok) ==
    /\ j \in 1..Len(jobs)
    /\ jobs[j].execution = "queued"
    /\ jobs' = [jobs EXCEPT ![j].execution =
                                IF ok THEN "succeeded" ELSE "failed"]
    /\ LET job == jobs[j]
           v == job.vm
       IN  IF ~ok THEN UNCHANGED vms
           ELSE IF job.op = "provision"
           THEN vms' = [vms EXCEPT ![v].state = "running",
                                   ![v].tags = job.tags]
           ELSE vms' = [vms EXCEPT ![v].tags =
                            applyTags(job.op, @, job.tags, job.key)]
    /\ resp' = NoResp
    /\ UNCHANGED <<cn, tickets, piping>>

TagVmIds == {"v1"}

InitTags ==
    /\ vms = [v \in TagVmIds |-> [state |-> "none", server_uuid |-> "none",
                                  brand |-> "none", tags |-> NoTags]]
    /\ cn = [v \in CnIds |-> "absent"]
    /\ jobs = <<>>
    /\ tickets = [k \in TicketKeys |-> <<>>]
    /\ resp = NoResp
    /\ piping = {}

NextTags ==
    \/ \E v \in TagVmIds, brand \in Brands, T \in RequestTags :
           createVmWithTags(v, brand, T)
    \/ \E v \in TagVmIds, op \in {"add_tags", "set_tags"},
          T \in RequestTags, sameOk \in BOOLEAN :
           tagsReq(op, v, T, NoKey, sameOk)
    \/ \E v \in TagVmIds, T \in RequestTags, wfErr \in BOOLEAN :
           changeVmTags(v, T, wfErr)
    \/ \E v \in TagVmIds, key \in TagKeys :
           tagsReq("delete_tag", v, NoTags, key, FALSE)
    \/ \E v \in TagVmIds : tagsReq("delete_tags", v, NoTags, NoKey, FALSE)
    \/ \E j \in 1..MaxTagJobs, ok \in BOOLEAN : tagJobEnds(j, ok)

SpecTags == InitTags /\ [][NextTags]_vars

\* job j succeeds in this step
Succeeds(j) ==
    jobs[j].execution = "queued" /\ jobs'[j].execution = "succeeded"

\* C24: when the job of a PUT of the tag set T succeeds the VM's tags are
\* exactly T, whatever they were, and the same PUT applied once more would
\* leave them as they are.
C24_PutReplaces ==
    [][\A j \in 1..Len(jobs) :
         Succeeds(j) /\ jobs[j].op = "set_tags" =>
            /\ vms'[jobs[j].vm].tags = jobs[j].tags
            /\ applyTags("set_tags", vms'[jobs[j].vm].tags, jobs[j].tags,
                         NoKey) = vms'[jobs[j].vm].tags]_vars

\* the same PUT twice, on a VM provisioned with other tags
C24_Witness ==
    /\ Len(jobs) = 3
    /\ jobs[1].tags = mergeTags(Tag1(ROLE, "b"), Tag1(GROUP, "a"))
    /\ jobs[2].op = "set_tags" /\ jobs[3].op = "set_tags"
    /\ jobs[2].tags = Tag1(ROLE, "a") /\ jobs[3].tags = Tag1(ROLE, "a")
    /\ \A j \in 1..3 : jobs[j].execution = "succeeded"
    /\ vms[jobs[1].vm].tags = Tag1(ROLE, "a")

\* C25: the job of a POST of tags sets the given keys and leaves every
\* other tag as it was; the job of a DELETE of a key removes that key and
\* leaves the others; the job of a DELETE of the tags leaves none.
C25_PostMergesDeleteRemoves ==
    [][\A j \in 1..Len(jobs) :
         Succeeds(j) =>
            LET old == vms[jobs[j].vm].tags
                new == vms'[jobs[j].vm].tags
                T == jobs[j].tags
            IN  /\ jobs[j].op = "add_tags" =>
                      /\ DOMAIN new = DOMAIN old \cup DOMAIN T
                      /\ \A k \in DOMAIN T : new[k] = T[k]
                      /\ \A k \in DOMAIN old \ DOMAIN T : new[k] = old[k]
                /\ jobs[j].op = "delete_tag" =>
                      /\ DOMAIN new = DOMAIN old \ {jobs[j].key}
                      /\ \A k \in DOMAIN new : new[k] = old[k]
                /\ jobs[j].op = "delete_tags" => DOMAIN new = {}]_vars

\* a POST has overwritten one tag and left another, then a DELETE of a key
\* has removed the first
C25_Witness ==
    /\ Len(jobs) = 3
    /\ jobs[1].tags = mergeTags(Tag1(ROLE, "b"), Tag1(GROUP, "a"))
    /\ jobs[2].op = "add_tags" /\ jobs[2].tags = Tag1(ROLE, "a")
    /\ jobs[3].op = "delete_tag" /\ jobs[3].key = ROLE
    /\ \A j \in 1..3 : jobs[j].execution = "succeeded"
    /\ vms[jobs[1].vm].tags = Tag1(GROUP, "a")

ReservedTags(tags) == {k \in DOMAIN tags : isReservedTag(k)}

\* would the request, applied to the tags, add, alter or delete a reserved
\* tag
TouchesReserved(op, old, T, key) ==
    LET new == applyTags(op, old, T, key)
    IN  \/ ReservedTags(new) # ReservedTags(old)
        \/ \E k \in ReservedTags(old) : new[k] # old[k]

\* C26 as stated: the reserved tags of a provisioned VM never change, and
\* on a VM with a reserved tag every tag request that would add, alter or delete a
\* reserved tag is answered 409 ValidationFailed and changes neither the
\* VM nor the jobs.
C26_ReservedTagsKept ==
    [][/\ \A v \in TagVmIds :
             vms[v].state = "running" =>
                /\ ReservedTags(vms'[v].tags) = ReservedTags(vms[v].tags)
                /\ \A k \in ReservedTags(vms[v].tags) :
                       vms'[v].tags[k] = vms[v].tags[k]
       /\ /\ resp'.op \in TagOps
          /\ ReservedTags(vms[resp'.vm].tags) # {}
          /\ TouchesReserved(resp'.op, vms[resp'.vm].tags, resp'.tags,
                             resp'.key)
          => /\ resp'.status = ValidationFailedStatus
             /\ resp'.code = "ValidationFailed"
             /\ vms' = vms /\ jobs' = jobs]_vars

\* does the request give a reserved key a value the VM does not have
SetsReserved(r) ==
    \E k \in ReservedTags(r.tags) :
        \/ r.op = "provision"
        \/ k \notin DOMAIN vms[r.vm].tags
        \/ vms[r.vm].tags[k] # r.tags[k]

MaxResizeJobs == 2
HUGE_RAM == 1024

Packages == {"pkg128", "pkg256", "pkgHuge"}
\* max_physical_memory of the package, in MiB
PackageRam(pkg) ==
    CASE pkg = "pkg128" -> SMALL_RAM
      [] pkg = "pkg256" -> LARGE_RAM
      [] OTHER -> HUGE_RAM

\* the RAM the server has left; it can be negative on an overprovisioned
\* server
ServerAvailable == {0 - SMALL_RAM, 0, SMALL_RAM, HUGE_RAM}

\* errors.insufficientCapacityErrorsElem(field)
insufficientCapacityErrorsElem(field) ==
    [field |-> field, code |-> "InsufficientCapacity"]

\* new errors.ValidationFailedError(message, errors)
ValidationFailedError(errors) ==
    [status |-> ValidationFailedStatus, code |-> "ValidationFailed",
     errors |-> errors]

\* the additional RAM the package needs
requiredRam(vm, pkg) == PackageRam(pkg) - vm.ram

ResizeResp(v, pkg, status, j, code, errors) ==
    [op |-> "update", vm |-> v, billing_id |-> pkg, status |-> status,
     job |-> j, code |-> code, errors |-> errors]

\* POST /vms/:uuid?action=update with billing_id: changeVm, streamResponse
\* valid: whether common.validateUpdate(req.params) returns or throws
changeVm(v, pkg, valid, wfErr) ==
    /\ vms[v].state = "running"
    /\ LET errors == IF valid THEN <<>>
                     ELSE <<insufficientCapacityErrorsElem("ram")>>
           e == ValidationFailedError(errors)
       IN  IF errors # <<>>
           THEN /\ resp' = ResizeResp(v, pkg, e.status, 0, e.code, e.errors)
                /\ UNCHANGED jobs
           ELSE IF wfErr
           THEN /\ resp' = ResizeResp(v, pkg, 500, 0, "none", <<>>)
                /\ UNCHANGED jobs
           ELSE /\ Len(jobs) < MaxResizeJobs
                /\ jobs' = Append(jobs, [op |-> "update", vm |-> v,
                                         billing_id |-> pkg,
                                         execution |-> "queued"])
                /\ resp' = ResizeResp(v, pkg, streamResponseStatus(FALSE),
                                      Len(jobs) + 1, "none", <<>>)
    /\ UNCHANGED <<vms, cn, tickets, piping>>

\* the update job ends: the VM has the package and the server the RAM left
resizeJobEnds(j, ok) ==
    /\ j \in 1..Len(jobs)
    /\ jobs[j].execution = "queued"
    /\ jobs' = [jobs EXCEPT ![j].execution =
                                IF ok THEN "succeeded" ELSE "failed"]
    /\ LET v == jobs[j].vm
           pkg == jobs[j].billing_id
       IN  IF ok
           THEN /\ vms' = [vms EXCEPT ![v].billing_id = pkg,
                                      ![v].ram = PackageRam(pkg)]
                /\ cn' = [cn EXCEPT ![SERVER] = @ - requiredRam(vms[v], pkg)]
           ELSE UNCHANGED <<vms, cn>>
    /\ resp' = NoResp
    /\ UNCHANGED <<tickets, piping>>

InitResize ==
    /\ \E pkg \in {"pkg128", "pkg256"} :
          vms = [v \in TagVmIds |-> [state |-> "running",
                                     server_uuid |-> SERVER,
                                     billing_id |-> pkg,
                                     ram |-> PackageRam(pkg)]]
    /\ cn \in [{SERVER} -> ServerAvailable]
    /\ jobs = <<>>
    /\ tickets = [k \in TicketKeys |-> <<>>]
    /\ resp = NoResp
    /\ piping = {}

NextResize ==
    \/ \E v \in TagVmIds, pkg \in Packages, valid, wfErr \in BOOLEAN :
           changeVm(v, pkg, valid, wfErr)
    \/ \E j \in 1..MaxResizeJobs, ok \in BOOLEAN : resizeJobEnds(j, ok)

SpecResize == InitResize /\ [][NextResize]_vars

\* C28 as stated: an update of billing_id is answered 409 exactly when the
\* package has more RAM than the VM and the additional RAM exceeds the RAM the
\* server has available; the answer is then ValidationFailed with field
\* ram and code InsufficientCapacity, and the VM and the jobs are as before;
\* an update to a package with less RAM is never answered 409.
C28_ResizeCapacity ==
    [][resp'.op = "update" =>
         LET need == requiredRam(vms[resp'.vm], resp'.billing_id)
             rejected == resp'.status = ValidationFailedStatus
         IN  /\ rejected <=> (need > 0 /\ need > cn[SERVER])
             /\ rejected =>
                   /\ resp'.code = "ValidationFailed"
                   /\ resp'.errors[1].field = "ram"
                   /\ resp'.errors[1].code = "InsufficientCapacity"
                   /\ vms' = vms /\ jobs' = jobs
             /\ need < 0 => ~rejected]_vars

(***************************************************************************)
(* The order of the tasks of a chain.                                      *)
(***************************************************************************)
\* the chain tasks a job in its chain has completed
Passed(j) ==
    {Chain(Job(j).name)[i] : i \in 1..(Job(j).idx - 1)}

\* C29: a provision job runs its chain in order, one task after the success
\* of the one before: cnapi.provision_vm comes after the ensure-image wait
\* and the fabric-NAT wait, vmapi.put_vm after cnapi.wait_task, and the
\* release of the VM ticket after vmapi.put_vm and fwapi.update.
C29_ProvisionOrder ==
    [][\A j \in 1..Len(jobs) :
         Job(j).name = "provision" /\ Job(j).phase = "chain" =>
            /\ jobs'[j].phase = "chain" =>
                   jobs'[j].idx \in {Job(j).idx, Job(j).idx + 1}
            /\ jobs'[j].execution = "succeeded" =>
                   Job(j).idx = Len(Chain("provision"))
            /\ Task(j) = "cnapi.provision_vm" =>
                   {"cnapi.wait_task_ensure_image", fabricProvisionWaitTask}
                       \subseteq Passed(j)
            /\ Task(j) = "vmapi.put_vm" => "cnapi.wait_task" \in Passed(j)
            /\ Task(j) = "cnapi.release_vm_ticket" =>
                   {"vmapi.put_vm", "fwapi.update"} \subseteq Passed(j)]_vars

\* a provision has run its whole chain and the zone exists
C29_Witness ==
    \E j \in 1..Len(jobs) :
        /\ Job(j).name = "provision"
        /\ Job(j).execution = "succeeded"
        /\ cn[Job(j).vm] = Job(j).expects

\* the add-nics tasks from the CNAPI update to the firewall update
AddNicsUpdateTasks ==
    {"cnapi.update_vm", "cnapi.wait_task", "vmapi.check_updated",
     "vmapi.put_vm", "fwapi.update"}

\* C30: an add-nics job is at its CNAPI update, or at a task after it up to
\* fwapi.update, only while it holds the active ticket of its VM, and at the
\* NAPI network-params update it has not asked for the ticket yet.
C30_AddNicsUnderTicket ==
    \A j \in 1..Len(jobs) :
        Job(j).name = "add-nics" /\ Job(j).phase = "chain" =>
            /\ Task(j) \in AddNicsUpdateTasks =>
                   IsActive(tickets[VmKey(Job(j).vm)], j)
            /\ Task(j) = "common.update_network_params" =>
                   ~HasTicket(tickets[VmKey(Job(j).vm)], j)
            /\ HasTicket(tickets[VmKey(Job(j).vm)], j) =>
                   "common.update_network_params" \in Passed(j)

\* one job at its firewall update under the active ticket, one waiting on
\* its queued ticket, one still at the NAPI update
C30_Witness ==
    \E a, b, c \in 1..Len(jobs) :
        /\ Job(a).phase = "chain" /\ Task(a) = "fwapi.update"
        /\ Job(b).phase = "chain" /\ Task(b) = "cnapi.wait_on_vm_ticket"
        /\ HasTicket(tickets[VmKey(Job(b).vm)], b)
        /\ Job(c).phase = "chain" /\ Task(c) = "common.update_network_params"

(***************************************************************************)
(* Add-nics jobs and the NICs of their requests in NAPI.                   *)
(***************************************************************************)
MaxNicJobs == 2

\* an add-nics job of a request with 'networks' or with 'macs'
CreateAddNicsJob(v, fabric, add_nics) ==
    /\ Len(jobs) < MaxNicJobs
    /\ vms[v].state \in {"running", "stopped"}
    /\ jobs' = Append(jobs,
                 [NewJob("add-nics", v, "undefined", FALSE, fabric, CALLER)
                     EXCEPT !.add_nics = add_nics,
                            !.nics = (add_nics = "macs")])
    /\ UNCHANGED <<vms, cn, tickets, resp, piping>>

NextNics ==
    \/ \E v \in VmIds, fabric \in BOOLEAN, add_nics \in {"networks", "macs"} :
           CreateAddNicsJob(v, fabric, add_nics)
    \/ \E j \in 1..MaxNicJobs : RunTask(j)
    \/ \E j \in 1..MaxNicJobs : FailTask(j)
    \/ \E j \in 1..MaxNicJobs : TimeoutTask(j)
    \/ \E j \in 1..MaxNicJobs : CancelJob(j)

SpecNics == InitJob /\ [][NextNics]_vars

\* the tasks of its onerror branch a job has completed
PassedOnError(j) ==
    LET branch == OnError(Job(j).name) IN
    IF Job(j).execution = "failed"
    THEN {branch[i] : i \in 1..Len(branch)}
    ELSE IF Job(j).phase = "onerror"
    THEN {branch[i] : i \in 1..(Job(j).idx - 1)}
    ELSE {}

\* C31: an add-nics job that has failed, at whichever task, has run
\* napi.cleanup_nics, the release of the VM ticket and the release of the
\* fabric-NAT ticket in that order; once the cleanup has run the NICs of the
\* request, created from 'networks' or passed by 'macs', are gone from NAPI,
\* and once a release has run the job has no ticket of that kind.
C31_AddNicsOnErrorCleansUp ==
    \A j \in 1..Len(jobs) :
        Job(j).name = "add-nics" =>
            /\ "napi.cleanup_nics" \in PassedOnError(j) => ~Job(j).nics
            /\ "on_error.release_vm_ticket" \in PassedOnError(j) =>
                   /\ "napi.cleanup_nics" \in PassedOnError(j)
                   /\ ~HasTicket(tickets[VmKey(Job(j).vm)], j)
            /\ fabricReleaseTicketTask \in PassedOnError(j) =>
                   /\ "on_error.release_vm_ticket" \in PassedOnError(j)
                   /\ ~HasTicket(tickets[FabricNatKey], j)
            /\ Job(j).execution = "failed" =>
                   /\ ~Job(j).nics
                   /\ ~HasTicket(tickets[VmKey(Job(j).vm)], j)
                   /\ ~HasTicket(tickets[FabricNatKey], j)

\* two add-nics jobs have failed after taking the ticket of the VM and of
\* the fabric, one of a request with 'networks', one of a request with 'macs'
C31_Witness ==
    \E a, b \in 1..Len(jobs) :
        /\ Job(a).execution = "failed" /\ Job(b).execution = "failed"
        /\ Job(a).add_nics = "networks" /\ Job(b).add_nics = "macs"
        /\ {"vm", "fabric_nat"} \subseteq Job(a).took
        /\ {"vm", "fabric_nat"} \subseteq Job(b).took

(***************************************************************************)
(* The tickets of the migration workflows.                                 *)
(***************************************************************************)
\* the place of a task in the chain of a workflow
TaskIndex(name, t) ==
    CHOOSE i \in 1..Len(Chain(name)) : Chain(name)[i] = t

\* the tasks of the chain from the one after task a up to task b
TasksBetween(name, a, b) ==
    {Chain(name)[i] : i \in (TaskIndex(name, a) + 1)..TaskIndex(name, b)}

HoldsVm(j) == HasTicket(tickets[VmKey(Job(j).vm)], j)
HoldsAllocation(j) == HasTicket(tickets[AllocationKey], j)

\* C32: a migrate-begin job in its chain has a ticket of its VM only from
\* the acquire to the release, the tasks between the two are the wait on the
\* ticket, the storing of the initial record, disallowRetry and the release
\* itself, and at the provision of the target and at every later task
\* it has none.
C32_MigrateBeginReleasesEarly ==
    \A j \in 1..Len(jobs) :
        Job(j).name = "migrate-begin" /\ Job(j).phase = "chain" =>
            LET acq == TaskIndex("migrate-begin",
                                 "common.tasks.acquireVMTicket")
                rel == TaskIndex("migrate-begin",
                                 "common.tasks.releaseVMTicket")
                prov == TaskIndex("migrate-begin",
                                  "migrationBegin.tasks.provisionVm")
            IN  /\ HoldsVm(j) => acq < Job(j).idx /\ Job(j).idx <= rel
                /\ Job(j).idx >= prov => ~HoldsVm(j)
                /\ TasksBetween("migrate-begin",
                                "common.tasks.acquireVMTicket",
                                "common.tasks.releaseVMTicket")
                     = {"common.tasks.waitOnVMTicket",
                        "migrationCommon.tasks.storeInitialRecord",
                        "migrationCommon.tasks.disallowRetry",
                        "common.tasks.releaseVMTicket"}

\* a migrate-begin job has released the ticket of its VM and is still in
\* its chain, and another job of the same VM runs under the active ticket
C32_Witness ==
    \E a, b \in 1..Len(jobs) :
        /\ a # b /\ Job(a).vm = Job(b).vm
        /\ Job(a).name = "migrate-begin" /\ Job(a).phase = "chain"
        /\ "vm" \in Job(a).took
        /\ Job(a).idx >= TaskIndex("migrate-begin",
                                   "migrationBegin.tasks.provisionVm")
        /\ InVmSection(b)
        /\ IsActive(tickets[VmKey(Job(b).vm)], b)

\* job a waits for a ticket of the VM or of the allocation that job b holds
\* active
WaitsFor(a, b) ==
    \E k \in TicketKeys \ {FabricNatKey} :
        /\ HasTicket(tickets[k], a)
        /\ ~IsActive(tickets[k], a)
        /\ IsActive(tickets[k], b)

HoldsActive(j) ==
    \E k \in TicketKeys \ {FabricNatKey} : IsActive(tickets[k], j)

MaxMigrateJobs == 2
MigrateNames == {"migrate-sync", "migrate-switch", "start"}

\* stale: sync processes of an earlier sync are still running
CreateMigrateJob(name, v, stale) ==
    /\ Len(jobs) < MaxMigrateJobs
    /\ vms[v].state \in {"running", "stopped"}
    /\ stale => name = "migrate-sync"
    /\ jobs' = Append(jobs,
                 [NewJob(name, v, "undefined", FALSE, FALSE, CALLER)
                     EXCEPT !.procs = IF stale THEN {"source", "target"}
                                      ELSE {}])
    /\ UNCHANGED <<vms, cn, tickets, resp, piping>>

NextMigrate ==
    \/ \E name \in MigrateNames, v \in VmIds, stale \in BOOLEAN :
           CreateMigrateJob(name, v, stale)
    \/ \E j \in 1..MaxMigrateJobs : RunTask(j)
    \/ \E j \in 1..MaxMigrateJobs : FailTask(j)
    \/ \E j \in 1..MaxMigrateJobs : CancelJob(j)

SpecMigrate == InitWf /\ [][NextMigrate]_vars

\* the tasks of its onerror or oncancel branch a job has completed
PassedBranch(j) ==
    LET e == OnError(Job(j).name)
        c == OnCancel(Job(j).name)
    IN  CASE Job(j).execution = "failed" -> {e[i] : i \in 1..Len(e)}
          [] Job(j).execution = "canceled" -> {c[i] : i \in 1..Len(c)}
          [] Job(j).phase = "onerror" -> {e[i] : i \in 1..(Job(j).idx - 1)}
          [] Job(j).phase = "oncancel" -> {c[i] : i \in 1..(Job(j).idx - 1)}
          [] OTHER -> {}

InBranch(j) == Job(j).phase \in {"onerror", "oncancel"}

\* job j completes its current task in this step
Completes(j) == Job(j).phase = jobs'[j].phase => Job(j).idx # jobs'[j].idx

\* C34: the server_uuid of a VM becomes the target server only in a step of
\* a migrate-switch job of the VM at updateVmServerUuid that holds the
\* active ticket of the VM, has completed ensureVmStopped and
\* reserveNetworkIps and has IPs reserved; the target instance is started
\* only by a job that has stored success and has no ticket of the VM.
C34_SwitchUnderTicket ==
    [][/\ \A v \in VmIds :
             vms'[v].server_uuid = TARGET_SERVER
             /\ vms[v].server_uuid # TARGET_SERVER =>
                \E j \in 1..Len(jobs) :
                    /\ Job(j).name = "migrate-switch" /\ Job(j).vm = v
                    /\ Job(j).phase = "chain"
                    /\ Task(j) = "modSwitch.tasks.updateVmServerUuid"
                    /\ IsActive(tickets[VmKey(v)], j)
                    /\ {"modSwitch.tasks.ensureVmStopped",
                        "modSwitch.tasks.reserveNetworkIps"}
                          \subseteq Passed(j)
                    /\ Job(j).reservedNetworkIps
       /\ \A j \in 1..Len(jobs) :
             jobs'[j].target = "running" /\ Job(j).target # "running" =>
                /\ Job(j).record = "successful"
                /\ {"migrationCommon.tasks.storeSuccess",
                    "common.tasks.releaseVMTicket"} \subseteq Passed(j)
                /\ ~HoldsVm(j)]_vars

\* a migrate-switch job has succeeded: the VM is on the target server and
\* the target instance runs
C34_Witness ==
    \E j \in 1..Len(jobs) :
        /\ Job(j).name = "migrate-switch" /\ Job(j).execution = "succeeded"
        /\ vms[Job(j).vm].server_uuid = TARGET_SERVER
        /\ Job(j).target = "running"

\* C35: a migrate-switch job that fails or is canceled runs storeFailure,
\* unreserveNetworkIps, startSourceVm and the release of the VM ticket in
\* that order: once storeFailure has run the record says failed, once
\* unreserveNetworkIps has run no IP is reserved for the target, the step of
\* startSourceVm leaves the source running, and a job that has ended failed
\* or canceled has no ticket of the VM.
C35_SwitchFailureUndone ==
    [][\A j \in 1..Len(jobs) :
          Job(j).name = "migrate-switch" =>
             LET done == {t \in {"migrationCommon.tasks.storeFailure",
                                 "modSwitch.tasks.unreserveNetworkIps",
                                 "modSwitch.tasks.startSourceVm"} :
                            t \in PassedBranch(j)}
             IN  /\ "migrationCommon.tasks.storeFailure" \in done =>
                        Job(j).record = "failed"
                 /\ "modSwitch.tasks.unreserveNetworkIps" \in done =>
                        /\ "migrationCommon.tasks.storeFailure" \in done
                        /\ ~Job(j).reservedNetworkIps
                 /\ "modSwitch.tasks.startSourceVm" \in done =>
                        "modSwitch.tasks.unreserveNetworkIps" \in done
                 /\ InBranch(j) /\ Task(j) = "modSwitch.tasks.startSourceVm"
                    /\ Completes(j) => cn'[Job(j).vm] = "running"
                 /\ Job(j).execution \in {"failed", "canceled"} =>
                        /\ Cardinality(done) = 3
                        /\ ~HoldsVm(j)]_vars

\* a migrate-switch job that failed under the ticket of the VM with IPs
\* reserved has stored the failure and is about to unreserve them
C35_Witness ==
    \E j \in 1..Len(jobs) :
        /\ Job(j).name = "migrate-switch" /\ Job(j).phase = "onerror"
        /\ Task(j) = "modSwitch.tasks.unreserveNetworkIps"
        /\ Job(j).reservedNetworkIps /\ Job(j).record = "failed"
        /\ IsActive(tickets[VmKey(Job(j).vm)], j)
        /\ cn[Job(j).vm] = "stopped"

\* C36 as stated: once a migrate-switch job has stored success, no later
\* step of the job stores failure, unreserves the IPs of the target or
\* restarts the source.
C36_NoUndoAfterSuccess ==
    [][\A j \in 1..Len(jobs) :
          /\ Job(j).name = "migrate-switch"
          /\ Job(j).record = "successful"
          /\ vms[Job(j).vm].server_uuid = TARGET_SERVER
          => /\ jobs'[j].record = "successful"
             /\ jobs'[j].reservedNetworkIps = Job(j).reservedNetworkIps
             /\ ~(/\ InBranch(j)
                  /\ Task(j) = "modSwitch.tasks.startSourceVm"
                  /\ Completes(j))]_vars

\* C37: a migrate-sync job in its chain is at cleanupSource, cleanupTarget
\* and storeInitialRecord under the active ticket of the VM and has no
\* ticket at the start of the source process and at any later task, where
\* alone sync processes of the job are started; in its onerror or oncancel
\* branch storeFailure comes after both cleanups, with no sync process left,
\* and the release of the ticket after storeFailure.
C37_SyncUnderTicket ==
    \A j \in 1..Len(jobs) :
        Job(j).name = "migrate-sync" =>
            /\ Job(j).phase = "chain" =>
                  /\ Task(j) \in {"cleanupSource", "cleanupTarget",
                                   "migrationCommon.tasks.storeInitialRecord"}
                       => IsActive(tickets[VmKey(Job(j).vm)], j)
                  /\ Job(j).idx > TaskIndex("migrate-sync",
                                            "common.tasks.releaseVMTicket")
                       => ~HoldsVm(j)
                  /\ TaskIndex("migrate-sync",
                               "migrationCommon.tasks.setupCnapiSource")
                       > TaskIndex("migrate-sync",
                                   "common.tasks.releaseVMTicket")
                  /\ TaskIndex("migrate-sync",
                               "migrationCommon.tasks.setupCnapiTarget")
                       > TaskIndex("migrate-sync",
                                   "common.tasks.releaseVMTicket")
                  /\ HoldsVm(j) /\ "cleanupTarget" \in Passed(j)
                       => Job(j).procs = {}
            /\ "migrationCommon.tasks.storeFailure" \in PassedBranch(j) =>
                  /\ {"cleanupSource", "cleanupTarget"}
                        \subseteq PassedBranch(j)
                  /\ Job(j).procs = {}
                  /\ Job(j).record = "failed"
            /\ "common.tasks.releaseVMTicketIgnoringErr" \in PassedBranch(j)
                  => /\ "migrationCommon.tasks.storeFailure"
                          \in PassedBranch(j)
                     /\ ~HoldsVm(j)
            /\ InBranch(j) /\ HoldsVm(j)
               /\ Task(j) = "migrationCommon.tasks.storeFailure"
                  => Job(j).procs = {}

\* a migrate-sync job runs its sync with both processes started and no
\* ticket while another job of the VM holds the active ticket
C37_Witness ==
    \E a, b \in 1..Len(jobs) :
        /\ Job(a).name = "migrate-sync" /\ Job(a).phase = "chain"
        /\ Task(a) = "migrationSync.tasks.sync"
        /\ Job(a).procs = {"source", "target"}
        /\ IsActive(tickets[VmKey(Job(b).vm)], b)
        /\ Job(b).vm = Job(a).vm

(***************************************************************************)
(* Provision jobs with every value of the autoboot parameter.              *)
(***************************************************************************)
MaxAutobootJobs == 1

CreateProvisionJob(v, autoboot) ==
    /\ Len(jobs) < MaxAutobootJobs
    /\ vms[v].state = "none"
    /\ vms' = [vms EXCEPT ![v] = [state |-> "provisioning",
                                  server_uuid |-> SERVER]]
    /\ jobs' = Append(jobs,
                 NewJob("provision", v, autoboot, FALSE, FALSE, CALLER))
    /\ UNCHANGED <<cn, tickets, resp, piping>>

NextAutoboot ==
    \/ \E v \in VmIds, autoboot \in AutobootValues :
           CreateProvisionJob(v, autoboot)
    \/ \E j \in 1..MaxAutobootJobs : RunTask(j)
    \/ \E j \in 1..MaxAutobootJobs : FailTask(j)
    \/ \E j \in 1..MaxAutobootJobs : CancelJob(j)

SpecAutoboot == InitJob /\ [][NextAutoboot]_vars

\* C40: a provision job whose autoboot parameter is the boolean false or
\* the string 'false' expects the VM stopped and, once it has succeeded,
\* its VM is stopped; with every other autoboot value it expects the VM
\* running and, once it has succeeded, its VM is running.
C40_AutobootExpects ==
    \A j \in 1..Len(jobs) :
        Job(j).name = "provision" =>
            LET state == IF Job(j).autoboot \in {"false", "'false'"}
                         THEN "stopped" ELSE "running"
            IN  /\ Job(j).expects # "none" => Job(j).expects = state
                /\ Job(j).execution = "succeeded" =>
                      /\ Job(j).expects = state
                      /\ vms[Job(j).vm].state = state

\* a provision with autoboot 'false' (the string) has succeeded and its VM
\* is stopped
C40_Witness ==
    \E j \in 1..Len(jobs) :
        /\ Job(j).name = "provision"
        /\ Job(j).autoboot = "'false'"
        /\ Job(j).execution = "succeeded"
        /\ vms[Job(j).vm].state = "stopped"

(***************************************************************************)
(* The task bodies of the provision workflow as functions of the job.      *)
(* validateParams changes nothing of the job and is left out.              *)
(***************************************************************************)
MaxAttempts == 2

\* image.users[i].name and the key of the user's password
Users == {"root", "admin"}
PwKey(user) == user \o "_pw"
MetadataKeys == {PwKey(u) : u \in Users} \cup {"set_resolvers"}

\* an object of JavaScript that is undefined, and one with no key
NoEntries == [k \in MetadataKeys |-> "undefined"]
NoMetadata == [defined |-> FALSE, entries |-> NoEntries]
EmptyMetadata == [defined |-> TRUE, entries |-> NoEntries]
\* an array that is undefined
NoList == [defined |-> FALSE, list |-> <<>>]
List(l) == [defined |-> TRUE, list |-> l]
NoPayload ==
    [defined |-> FALSE, internal_metadata |-> FALSE, resolvers |-> NoList,
     archive_on_delete |-> FALSE]

\* The job of a provision with the parameters the bodies read:
\* image: params.image (generate_passwords, users); internal_metadata,
\* resolvers: params.internal_metadata, params.resolvers; nic_resolvers:
\* params.nics[i].resolvers; payload: params.payload, whose
\* internal_metadata is the object of params.internal_metadata itself;
\* taskId, action: job.taskId, job.action.
BodiesJob(image, internal_metadata, resolvers, nic_resolvers, autoboot) ==
    NewJob("provision", "v2", autoboot, FALSE, FALSE, CALLER)
    @@ [image |-> image, internal_metadata |-> internal_metadata,
        resolvers |-> resolvers, nic_resolvers |-> nic_resolvers,
        payload |-> NoPayload, taskId |-> "none", action |-> "none"]

setJobAction(S, j) ==
    [S |-> [S EXCEPT !.jobs[j].action = "provision"], err |-> FALSE]

\* async.mapSeries over the users: the first error of apg ends the series
RECURSIVE mapSeriesOverwrite(_, _, _)
mapSeriesOverwrite(entries, users, apg) ==
    IF users = <<>> THEN [entries |-> entries, err |-> FALSE]
    ELSE LET name == PwKey(Head(users)) IN
         IF apg[Head(users)] = "err"
         THEN [entries |-> entries, err |-> TRUE]
         ELSE mapSeriesOverwrite(
                  [entries EXCEPT ![name] = apg[Head(users)]],
                  Tail(users), apg)

RECURSIVE mapSeries(_, _, _)
mapSeries(entries, users, apg) ==
    IF users = <<>> THEN [entries |-> entries, err |-> FALSE]
    ELSE LET name == PwKey(Head(users)) IN
         IF entries[name] = "undefined"
         THEN IF apg[Head(users)] = "err"
              THEN [entries |-> entries, err |-> TRUE]
              ELSE mapSeries([entries EXCEPT ![name] = apg[Head(users)]],
                             Tail(users), apg)
         ELSE mapSeries(entries, Tail(users), apg)

\* a password is generated for every user, whether the user has one or not
generatePasswordsOverwrite(S, j, apg) ==
    LET params == S.jobs[j] IN
    IF params.image.generate_passwords = "false"
    THEN [S |-> S, err |-> FALSE]
    ELSE IF ~params.image.users.defined
    THEN [S |-> S, err |-> FALSE]
    ELSE LET r == mapSeriesOverwrite(params.internal_metadata.entries,
                                     params.image.users.list, apg)
         IN  [S |-> [S EXCEPT !.jobs[j].internal_metadata =
                        [defined |-> TRUE, entries |-> r.entries]],
              err |-> r.err]

\* apg: what /opt/local/bin/apg answers for each user it is run for
generatePasswords(S, j, apg) ==
    LET params == S.jobs[j] IN
    IF params.image.generate_passwords = "false"
    THEN [S |-> S, err |-> FALSE]
    ELSE IF ~params.image.users.defined
    THEN [S |-> S, err |-> FALSE]
    ELSE LET r == mapSeries(params.internal_metadata.entries,
                            params.image.users.list, apg)
         IN  [S |-> [S EXCEPT !.jobs[j].internal_metadata =
                        [defined |-> TRUE, entries |-> r.entries]],
              err |-> r.err]

\* task: what cnapi.ensureImage answers, an error or the id of a task
ensureImage(S, j, task) ==
    IF task = "err" THEN [S |-> S, err |-> TRUE]
    ELSE [S |-> [S EXCEPT !.jobs[j].taskId = task], err |-> FALSE]

\* the resolvers of one NIC, each pushed unless the list has it
RECURSIVE pushResolvers(_, _)
pushResolvers(resolvers, list) ==
    IF list = <<>> THEN resolvers
    ELSE pushResolvers(
             IF \E i \in 1..Len(resolvers) : resolvers[i] = Head(list)
             THEN resolvers ELSE Append(resolvers, Head(list)),
             Tail(list))

RECURSIVE nicResolvers(_, _)
nicResolvers(resolvers, nics) ==
    IF nics = <<>> THEN resolvers
    ELSE nicResolvers(
             IF Head(nics).defined
             THEN pushResolvers(resolvers, Head(nics).list) ELSE resolvers,
             Tail(nics))

\* Of the keys copied from params, internal_metadata and resolvers are
\* followed.
preparePayload(S, j) ==
    LET params == S.jobs[j]
        copied == [defined |-> TRUE,
                   internal_metadata |-> params.internal_metadata.defined,
                   resolvers |-> params.resolvers,
                   archive_on_delete |-> TRUE]
        wantResolvers ==
            ~(/\ params.internal_metadata.defined
              /\ params.internal_metadata.entries["set_resolvers"] = "false")
        resolvers == nicResolvers(<<>>, params.nic_resolvers)
        payload == IF wantResolvers /\ ~copied.resolvers.defined
                   THEN [copied EXCEPT !.resolvers = List(resolvers)]
                   ELSE copied
    IN  [S |-> [S EXCEPT !.jobs[j].payload = payload], err |-> FALSE]

\* provision with the answer of cnapi.createVm, an error or the id of a
\* task
provisionTask(S, j, task) ==
    IF S.jobs[j].force_provision_failure \/ task = "err"
    THEN [S |-> provisionExpects(S, j), err |-> TRUE]
    ELSE [S |-> [provision(S, j) EXCEPT !.jobs[j].taskId = task],
          err |-> FALSE]

BodyTasks ==
    <<"workflow.set_job_action", "imgapi.generate_passwords",
      "cnapi.ensure_image", "prepare_payload", "cnapi.provision_vm">>
AllBodies ==
    {BodyTasks[i] : i \in 1..Len(BodyTasks)} \cup {"set_post_back_failed"}
\* the bodies that ask CNAPI for a task
CnapiBodies == {"cnapi.ensure_image", "cnapi.provision_vm"}

\* What the services answer during one run of a body.
Answers == [apg : [Users -> {"pw1", "pw2", "err"}], task : {"t1", "t2", "err"}]
AnswersOf(t) ==
    CASE t = "imgapi.generate_passwords" -> {e \in Answers : e.task = "err"}
      [] t \in CnapiBodies ->
            {e \in Answers : \A u \in Users : e.apg[u] = "err"}
      [] OTHER -> {e \in Answers : e.task = "err" /\
                                   \A u \in Users : e.apg[u] = "err"}

Body(t, S, j, e) ==
    CASE t = "workflow.set_job_action" -> setJobAction(S, j)
      [] t = "imgapi.generate_passwords" -> generatePasswords(S, j, e.apg)
      [] t = "cnapi.ensure_image" -> ensureImage(S, j, e.task)
      [] t = "prepare_payload" -> preparePayload(S, j)
      [] t = "cnapi.provision_vm" -> provisionTask(S, j, e.task)
      [] t = "set_post_back_failed" ->
            [S |-> setPostBackFailed(S, j), err |-> FALSE]

BodiesResp(t, err, attempts, failed, done) ==
    [task |-> t, err |-> err, attempts |-> attempts, failed |-> failed,
     done |-> done]

InitBodies ==
    /\ vms = [v \in VmIds |->
                CASE v = "v1" -> [state |-> "running", server_uuid |-> SERVER]
                  [] v = "v2" -> [state |-> "provisioning",
                                  server_uuid |-> SERVER]
                  [] OTHER -> NoVm]
    /\ cn = [v \in CnIds |-> IF v = "v1" THEN "running" ELSE "absent"]
    /\ tickets = [k \in TicketKeys |-> <<>>]
    /\ piping = {}
    /\ resp = BodiesResp("none", FALSE, 0, 0, 0)
    /\ \E generate_passwords \in {"false", "true", "undefined"},
          users \in {NoList, List(<<"root">>), List(<<"root", "admin">>)},
          internal_metadata \in
              {NoMetadata, EmptyMetadata,
               [EmptyMetadata EXCEPT !.entries["root_pw"] = "given"],
               [EmptyMetadata EXCEPT !.entries["set_resolvers"] = "false"],
               [EmptyMetadata EXCEPT !.entries["set_resolvers"] = "true"]},
          resolvers \in {NoList, List(<<"r1">>)},
          nic_resolvers \in
              {<<NoList>>, <<List(<<"r1", "r2">>), List(<<"r2", "r3">>)>>},
          autoboot \in {"false", "undefined"} :
          jobs = <<BodiesJob([generate_passwords |-> generate_passwords,
                              users |-> users],
                             internal_metadata, resolvers, nic_resolvers,
                             autoboot)>>

\* the next body of the chain, after the success of the one before
RunBody(e) ==
    /\ ~resp.err
    /\ resp.done < Len(BodyTasks)
    /\ LET t == BodyTasks[resp.done + 1]
           r == Body(t, State, 1, e)
       IN  /\ Set(r.S)
           /\ resp' = BodiesResp(t, r.err, 1, IF r.err THEN 1 ELSE 0,
                                 IF r.err THEN resp.done ELSE resp.done + 1)
    /\ UNCHANGED piping

\* the body that ran last, again
RetryBody(e) ==
    /\ resp.task # "none"
    /\ resp.attempts < MaxAttempts
    /\ LET r == Body(resp.task, State, 1, e)
       IN  /\ Set(r.S)
           /\ resp' = BodiesResp(resp.task, r.err, resp.attempts + 1,
                                 IF r.err THEN resp.failed + 1
                                 ELSE resp.failed,
                                 IF resp.err /\ ~r.err THEN resp.done + 1
                                 ELSE resp.done)
    /\ UNCHANGED piping

\* the body of the onerror branch, after a body of the chain failed
OnErrorBody ==
    /\ resp.err
    /\ Set(setPostBackFailed(State, 1))
    /\ resp' = BodiesResp("set_post_back_failed", FALSE, 1, 0,
                          Len(BodyTasks))
    /\ UNCHANGED piping

NextBodies ==
    \/ \E e \in Answers : RunBody(e)
    \/ \E e \in Answers : RetryBody(e)
    \/ OnErrorBody

SpecBodies == InitBodies /\ [][NextBodies]_vars

PwKeys == {PwKey(u) : u \in Users}

\* C38: a provision task body run again on the job, after a run that failed
\* or one that succeeded, leaves the job in a state that one run of the
\* body leaves it in; a body that asks CNAPI for no task, run again after
\* it succeeded, changes nothing; and generatePasswords leaves every
\* '<user>_pw' entry the job has as it is, so the passwords of an earlier
\* run are kept.
C38_BodiesIdempotent ==
    \A t \in AllBodies :
    \A e1 \in AnswersOf(t) :
        LET r1 == Body(t, State, 1, e1) IN
        /\ t = "imgapi.generate_passwords" =>
              \A k \in PwKeys :
                  jobs[1].internal_metadata.entries[k] # "undefined" =>
                      r1.S.jobs[1].internal_metadata.entries[k]
                          = jobs[1].internal_metadata.entries[k]
        /\ \A e2 \in AnswersOf(t) :
              LET r2 == Body(t, r1.S, 1, e2) IN
              /\ \E e \in AnswersOf(t) : Body(t, State, 1, e).S = r2.S
              /\ ~r1.err /\ t \notin CnapiBodies => r2 = r1

\* generatePasswords failed once and was run again: the job has the
\* password of root and the one of admin
C38_Witness ==
    /\ resp.task = "imgapi.generate_passwords"
    /\ resp.attempts = 2 /\ resp.failed = 1 /\ ~resp.err
    /\ jobs[1].internal_metadata.entries["root_pw"] = "pw1"
    /\ jobs[1].internal_metadata.entries["admin_pw"] = "pw2"

\* C39: a payload prepared for a job whose internal_metadata.set_resolvers
\* is false has no resolvers or an empty list of them, whatever the
\* resolvers of the NICs and of the parameters are.
C39_NoResolvers ==
    /\ jobs[1].payload.defined
    /\ jobs[1].internal_metadata.defined
    /\ jobs[1].internal_metadata.entries["set_resolvers"] = "false"
    => \/ ~jobs[1].payload.resolvers.defined
       \/ jobs[1].payload.resolvers.list = <<>>

====
